---- MODULE Spec2Model ----
(***************************************************************************)
(* A model of the request dispatcher of plaid-rs: Client construction      *)
(* (Client::new, Client::from_env), Client::get_host and                   *)
(* Client::send_request (src/src/client.rs), with the error types of       *)
(* src/src/errors.rs.                                                      *)
(*                                                                         *)
(* Text that the code parses (environment variable values, endpoint        *)
(* strings) is a sequence of one-character strings; text that is only      *)
(* carried around is a TLA+ string.                                        *)
(***************************************************************************)
EXTENDS Integers, Sequences, FiniteSets, TLC

VARIABLES
    environ,    \* the process environment: variable name -> value, Absent or NotUnicode
    ctor,       \* the constructor that ran: "none", "new", "from_env", or "panic"
    client,     \* the constructed Client, or NoClient
    calls,      \* one record per send_request call (see IdleCall)
    net         \* the HTTP requests put on the wire, in order

vars == <<environ, ctor, client, calls, net>>

----------------------------------------------------------------------------
(* Text helpers *)

RECURSIVE Concat(_)
\* the TLA+ string spelled by a sequence of one-character strings
Concat(cs) == IF cs = <<>> THEN "" ELSE Head(cs) \o Concat(Tail(cs))

\* the sequence of one-character strings of a string literal
Chars(s) == [i \in 1..Len(s) |-> SubSeq(s, i, i)]

UpperLetters == <<"A","B","C","D","E","I","L","M","N","O","P","R","S","T","U","V","X">>
LowerLetters == <<"a","b","c","d","e","i","l","m","n","o","p","r","s","t","u","v","x">>

\* char::to_lowercase on the characters the model uses
ToLowerChar(ch) ==
    IF \E i \in 1..Len(UpperLetters) : UpperLetters[i] = ch
    THEN LowerLetters[CHOOSE i \in 1..Len(UpperLetters) : UpperLetters[i] = ch]
    ELSE ch

\* char::to_uppercase on the characters the model uses
ToUpperChar(ch) ==
    IF \E i \in 1..Len(LowerLetters) : LowerLetters[i] = ch
    THEN UpperLetters[CHOOSE i \in 1..Len(LowerLetters) : LowerLetters[i] = ch]
    ELSE ch

\* str::to_lowercase
to_lowercase(s) == [i \in 1..Len(s) |-> ToLowerChar(s[i])]

\* str::to_uppercase
to_uppercase(s) == [i \in 1..Len(s) |-> ToUpperChar(s[i])]

----------------------------------------------------------------------------
(* Environment and Client *)

Environment == {"Sandbox", "Development", "Production"}

NoClient == [made |-> FALSE]

\* struct Client; the reqwest::Client field is the shared transport, whose
\* traffic is the variable net
Client(client_id, secret, environment) ==
    [made |-> TRUE, client_id |-> client_id, secret |-> secret,
     environment |-> environment]

Absent == [set |-> FALSE, unicode |-> TRUE]
NotUnicode == [set |-> TRUE, unicode |-> FALSE]
Value(s) == [set |-> TRUE, unicode |-> TRUE, v |-> s]

Panic == [panic |-> TRUE]
Done(v) == [panic |-> FALSE, v |-> v]

\* reqwest::Client::builder().build(): whether the transport could be built.
\* The result is Err when the TLS backend or the resolver of the process
\* cannot be set up, which no argument of the crate decides.
build == {TRUE, FALSE}

\* Client::new: the client, or the panic of build().unwrap(); built is the
\* outcome of build()
new(built, client_id, secret, environment) ==
    IF built THEN Done(Client(client_id, secret, environment)) ELSE Panic

\* std::env::var(name).expect(..): the value, or a panic when the variable is
\* absent or not valid Unicode
var_expect(e, name) ==
    IF e[name].set /\ e[name].unicode THEN Done(e[name].v) ELSE Panic

\* match_environment with a last arm that falls back to Sandbox
match_environment_default(s) ==
    CASE Concat(s) = "SANDBOX" -> Done("Sandbox")
      [] Concat(s) = "DEVELOPMENT" -> Done("Development")
      [] Concat(s) = "PRODUCTION" -> Done("Production")
      [] OTHER -> Done("Sandbox")

\* the match of from_env on the lower-cased selector
match_environment(s) ==
    CASE Concat(s) = "SANDBOX" -> Done("Sandbox")
      [] Concat(s) = "DEVELOPMENT" -> Done("Development")
      [] Concat(s) = "PRODUCTION" -> Done("Production")
      [] OTHER -> Panic

\* from_env with unwrap_or_default() for expect() and a last arm that falls
\* back to Sandbox
from_env_defaulting(built, e) ==
    LET get(name) == IF e[name].set /\ e[name].unicode THEN e[name].v ELSE <<>> IN
    new(built, Concat(get("PLAID_CLIENT_ID")), Concat(get("PLAID_SECRET")),
        match_environment_default(to_lowercase(get("PLAID_ENVIRONMENT"))).v)

\* Client::from_env: the client, or a panic; built is the outcome of build()
\* in Client::new
from_env(built, e) ==
    LET sel == var_expect(e, "PLAID_ENVIRONMENT") IN
    IF sel.panic THEN Panic
    ELSE LET plaid_environment == match_environment(to_lowercase(sel.v)) IN
         IF plaid_environment.panic THEN Panic
         ELSE LET id == var_expect(e, "PLAID_CLIENT_ID") IN
              IF id.panic THEN Panic
              ELSE LET secret == var_expect(e, "PLAID_SECRET") IN
                   IF secret.panic THEN Panic
                   ELSE new(built, Concat(id.v), Concat(secret.v), plaid_environment.v)

----------------------------------------------------------------------------
(* URLs: Client::get_host and Url::join *)

Url(scheme, host, path) == [scheme |-> scheme, host |-> host, path |-> path]

\* the text of a URL (Url::as_str)
Href(u) == u.scheme \o "://" \o u.host \o Concat(u.path)

\* get_host with the Sandbox literal copied into the Development arm
get_host_copied(c) ==
    CASE c.environment = "Sandbox" -> Url("https", "sandbox.plaid.com", <<"/">>)
      [] c.environment = "Development" -> Url("https", "sandbox.plaid.com", <<"/">>)
      [] c.environment = "Production" -> Url("https", "production.plaid.com", <<"/">>)

\* Client::get_host: Url::parse of the literal of the environment
get_host(c) ==
    CASE c.environment = "Sandbox" -> Url("https", "sandbox.plaid.com", <<"/">>)
      [] c.environment = "Development" -> Url("https", "development.plaid.com", <<"/">>)
      [] c.environment = "Production" -> Url("https", "production.plaid.com", <<"/">>)

NoUrl == Url("", "", <<>>)

JoinOk(u) == [ok |-> TRUE, err |-> "", url |-> u]
JoinErr(e) == [ok |-> FALSE, err |-> e, url |-> NoUrl]

\* the number of "/" at the start of s
RECURSIVE LeadingSlashes(_)
LeadingSlashes(s) ==
    IF s # <<>> /\ Head(s) = "/" THEN 1 + LeadingSlashes(Tail(s)) ELSE 0

\* s without its first n characters
Drop(s, n) == SubSeq(s, n + 1, Len(s))

\* the characters of s before its first "/"
UpToSlash(s) ==
    IF \E i \in 1..Len(s) : s[i] = "/"
    THEN SubSeq(s, 1, (CHOOSE i \in 1..Len(s) :
                         s[i] = "/" /\ \A k \in 1..(i - 1) : s[k] # "/") - 1)
    ELSE s

\* a path up to and including its last "/" (the base path without its last
\* segment, to which a relative reference is appended)
DirOf(path) ==
    SubSeq(path, 1, CHOOSE i \in 1..Len(path) :
                      path[i] = "/" /\ \A k \in (i + 1)..Len(path) : path[k] # "/")

\* the authority and path that follow "//" under the scheme of the base, a
\* special scheme: an empty host is an error, an empty path is "/"
AfterDoubleSlash(base, rest) ==
    LET host == UpToSlash(rest)
        path == Drop(rest, Len(host))
    IN IF host = <<>> THEN JoinErr("EmptyHost")
       ELSE JoinOk(Url(base.scheme, Concat(host), IF path = <<>> THEN <<"/">> ELSE path))

\* the endpoint appended to the text of the base after a "/" of its own
join_appending(base, input) ==
    {JoinOk(Url(base.scheme, base.host, base.path \o <<"/">> \o input))}

\* Url::join(base, input) for an input of letters and "/": the set of results
\* the url crate can give. The crate's version is not pinned by the sources: a
\* reference that starts with three or more "/" is an empty host in the
\* versions that take the authority after the first two, and names the host
\* after all of them in the versions that skip them.
join(base, input) ==
    LET n == LeadingSlashes(input) IN
    IF input = <<>> THEN {JoinOk(base)}
    ELSE IF n >= 2
         THEN {AfterDoubleSlash(base, Drop(input, 2)), AfterDoubleSlash(base, Drop(input, n))}
         ELSE IF n = 1
              THEN {JoinOk(Url(base.scheme, base.host, input))}
              ELSE {JoinOk(Url(base.scheme, base.host, DirOf(base.path) \o input))}

----------------------------------------------------------------------------
(* JSON documents, Rust values and serde *)

JNull == [j |-> "null"]
JStr(s) == [j |-> "string", s |-> s]
JNum(n) == [j |-> "number", n |-> n]
JBool(b) == [j |-> "bool", b |-> b]
JArr(items) == [j |-> "array", items |-> items]
JObj(members) == [j |-> "object", members |-> members]
\* a document of the shape of the crate's type name, its members not spelled out
JOf(name) == [j |-> "of", name |-> name]

RString(s) == [k |-> "String", s |-> s]
RNone == [k |-> "None"]
RSome(v) == [k |-> "Some", v |-> v]
RVec(items) == [k |-> "Vec", items |-> items]
RNumber(n) == [k |-> "Number", n |-> n]
RBool(b) == [k |-> "Bool", b |-> b]
\* chrono::NaiveDate
RNaiveDate(y, m, d) == [k |-> "NaiveDate", y |-> y, m |-> m, d |-> d]
\* a value of the crate's type name, its fields not spelled out
RNamed(name) == [k |-> "Named", name |-> name]
\* a struct value: skip names the fields marked skip_serializing_if, which is
\* Option::is_none on an Option and Vec::is_empty on a Vec
RStruct(fields, skip) == [k |-> "Struct", fields |-> fields, skip |-> skip]
\* a value whose Serialize implementation reports an error
RUnserializable == [k |-> "Unserializable"]

TString == [t |-> "String"]
TOption(of) == [t |-> "Option", of |-> of]
TVec(of) == [t |-> "Vec", of |-> of]
TStruct(fields) == [t |-> "Struct", fields |-> fields]
TBool == [t |-> "Bool"]
TNumber == [t |-> "Number"]
\* a type of the crate whose fields are not spelled out
TNamed(name) == [t |-> "Named", name |-> name]

SerdeOk(v) == [ok |-> TRUE, v |-> v]
SerdeErr == [ok |-> FALSE]

\* serde_json::to_vec through #[derive(Serialize)]: the JSON document of a
\* value, or an error. A NaiveDate is the string of its year, month and day.
RECURSIVE to_json(_)
to_json(v) ==
    CASE v.k = "String" -> SerdeOk(JStr(v.s))
      [] v.k = "Number" -> SerdeOk(JNum(v.n))
      [] v.k = "Bool" -> SerdeOk(JBool(v.b))
      [] v.k = "NaiveDate" ->
            LET Padded(n, width) ==
                    LET digits == ToString(n)
                        zeros[k \in 0..width] == IF k = 0 THEN "" ELSE "0" \o zeros[k - 1]
                    IN IF Len(digits) >= width THEN digits
                       ELSE zeros[width - Len(digits)] \o digits
            IN SerdeOk(JStr(Padded(v.y, 4) \o "-" \o Padded(v.m, 2) \o "-" \o Padded(v.d, 2)))
      [] v.k = "None" -> SerdeOk(JNull)
      [] v.k = "Some" -> to_json(v.v)
      [] v.k = "Vec" ->
            IF \E i \in 1..Len(v.items) : ~to_json(v.items[i]).ok THEN SerdeErr
            ELSE SerdeOk(JArr([i \in 1..Len(v.items) |-> to_json(v.items[i]).v]))
      [] v.k = "Struct" ->
            LET skipped(f) ==
                    /\ f \in v.skip
                    /\ \/ v.fields[f].k = "None"
                       \/ v.fields[f].k = "Vec" /\ v.fields[f].items = <<>>
                kept == {f \in DOMAIN v.fields : ~skipped(f)}
            IN
            IF \E f \in kept : ~to_json(v.fields[f]).ok THEN SerdeErr
            ELSE SerdeOk(JObj([f \in kept |-> to_json(v.fields[f]).v]))
      [] OTHER -> SerdeErr

\* from_json collecting the items of an array in reverse
RECURSIVE from_json_reversing(_, _)
from_json_reversing(ty, doc) ==
    CASE ty.t = "String" ->
            IF doc.j = "string" THEN SerdeOk(RString(doc.s)) ELSE SerdeErr
      [] ty.t = "Option" ->
            IF doc.j = "null" THEN SerdeOk(RNone)
            ELSE LET inner == from_json_reversing(ty.of, doc) IN
                 IF inner.ok THEN SerdeOk(RSome(inner.v)) ELSE SerdeErr
      [] ty.t = "Vec" ->
            IF doc.j # "array" THEN SerdeErr
            ELSE IF \E i \in 1..Len(doc.items) : ~from_json_reversing(ty.of, doc.items[i]).ok
                 THEN SerdeErr
                 ELSE SerdeOk(RVec([i \in 1..Len(doc.items) |->
                        from_json_reversing(ty.of, doc.items[Len(doc.items) + 1 - i]).v]))
      [] ty.t = "Struct" ->
            IF doc.j # "object" THEN SerdeErr
            ELSE LET field(f) ==
                        IF f \in DOMAIN doc.members
                        THEN from_json_reversing(ty.fields[f], doc.members[f])
                        ELSE IF ty.fields[f].t = "Option" THEN SerdeOk(RNone)
                             ELSE SerdeErr
                 IN IF \E f \in DOMAIN ty.fields : ~field(f).ok THEN SerdeErr
                    ELSE SerdeOk(RStruct([f \in DOMAIN ty.fields |-> field(f).v], {}))

\* serde_json::from_slice through #[derive(Deserialize)]: the value of type ty
\* that a JSON document decodes to, or an error. A missing member of Option
\* type is None, any other missing member is an error, members the type does
\* not name are ignored, and an array keeps its order. A type that is not
\* spelled out decodes the documents of its shape, as a unit.
RECURSIVE from_json(_, _)
from_json(ty, doc) ==
    CASE ty.t = "String" ->
            IF doc.j = "string" THEN SerdeOk(RString(doc.s)) ELSE SerdeErr
      [] ty.t = "Bool" ->
            IF doc.j = "bool" THEN SerdeOk(RBool(doc.b)) ELSE SerdeErr
      [] ty.t = "Number" ->
            IF doc.j = "number" THEN SerdeOk(RNumber(doc.n)) ELSE SerdeErr
      [] ty.t = "Named" ->
            IF doc.j = "of" /\ doc.name = ty.name THEN SerdeOk(RNamed(ty.name)) ELSE SerdeErr
      [] ty.t = "Option" ->
            IF doc.j = "null" THEN SerdeOk(RNone)
            ELSE LET inner == from_json(ty.of, doc) IN
                 IF inner.ok THEN SerdeOk(RSome(inner.v)) ELSE SerdeErr
      [] ty.t = "Vec" ->
            IF doc.j # "array" THEN SerdeErr
            ELSE IF \E i \in 1..Len(doc.items) : ~from_json(ty.of, doc.items[i]).ok
                 THEN SerdeErr
                 ELSE SerdeOk(RVec([i \in 1..Len(doc.items) |->
                                        from_json(ty.of, doc.items[i]).v]))
      [] ty.t = "Struct" ->
            IF doc.j # "object" THEN SerdeErr
            ELSE LET field(f) ==
                        IF f \in DOMAIN doc.members
                        THEN from_json(ty.fields[f], doc.members[f])
                        ELSE IF ty.fields[f].t = "Option" THEN SerdeOk(RNone)
                             ELSE SerdeErr
                 IN IF \E f \in DOMAIN ty.fields : ~field(f).ok THEN SerdeErr
                    ELSE SerdeOk(RStruct([f \in DOMAIN ty.fields |-> field(f).v], {}))

\* the body of an HTTP response: bytes that are no JSON document, or a document
NoBody == [arrived |-> FALSE, json |-> FALSE]
NotJson == [arrived |-> TRUE, json |-> FALSE]
Json(doc) == [arrived |-> TRUE, json |-> TRUE, doc |-> doc]

\* json reading every string member of the body from its request_id
json_echoing_id(ty, body) ==
    IF ~body.json THEN SerdeErr
    ELSE IF body.doc.j = "object" /\ "request_id" \in DOMAIN body.doc.members
         THEN from_json(ty, JObj([f \in DOMAIN body.doc.members |->
                                     IF body.doc.members[f].j = "string"
                                     THEN body.doc.members.request_id
                                     ELSE body.doc.members[f]]))
         ELSE from_json(ty, body.doc)

\* Response::json::<T>(): the decoded body, or an error
json(ty, body) == IF body.json THEN from_json(ty, body.doc) ELSE SerdeErr

\* ErrorResponse with display_message: String
ErrorResponse_strict ==
    TStruct([request_id |-> TString, error_type |-> TString, error_code |-> TString,
             error_message |-> TString, display_message |-> TString])

\* struct ErrorResponse
ErrorResponse ==
    TStruct([request_id |-> TString, error_type |-> TString, error_code |-> TString,
             error_message |-> TString, display_message |-> TOption(TString)])

\* struct Category
Category ==
    TStruct([category_id |-> TString, group |-> TString, hierarchy |-> TVec(TString)])

\* struct GetCategoriesResponse
GetCategoriesResponse ==
    TStruct([categories |-> TVec(Category), request_id |-> TString])

\* struct Institution
Institution ==
    TStruct([institution_id |-> TString, name |-> TString, products |-> TVec(TString),
             country_codes |-> TVec(TString), url |-> TOption(TString),
             primary_color |-> TOption(TString), logo |-> TOption(TString),
             routing_numbers |-> TOption(TVec(TString)), oauth |-> TBool])

\* struct GetCategoriesRequest {}
GetCategoriesRequest == RStruct(<<>>, {})

----------------------------------------------------------------------------
(* Errors and results (src/src/errors.rs) *)

\* PlaidError with error_type and error_code taken from each other and the
\* status fixed
PlaidError_mixed(request_id, error_type, error_code, error_message, display_message, status_code) ==
    [request_id |-> request_id, error_type |-> error_code, error_code |-> error_type,
     error_message |-> error_message, display_message |-> display_message,
     status_code |-> 400]

\* struct PlaidError
PlaidError(request_id, error_type, error_code, error_message, display_message, status_code) ==
    [request_id |-> request_id, error_type |-> error_type, error_code |-> error_code,
     error_message |-> error_message, display_message |-> display_message,
     status_code |-> status_code]

\* enum Error; a reqwest::Error is known by its kind
Plaid(e) == [variant |-> "Plaid", plaid |-> e]
Request(kind) == [variant |-> "Request", kind |-> kind]

\* from_plaid_error folding the API error into the transport variant
from_plaid_error_as_request(e) == Request("status")

\* impl From<PlaidError> for Error
from_plaid_error(e) == Plaid(e)

\* from_reqwest_error presenting the failure as an API error
from_reqwest_error_as_plaid(kind) == Plaid(kind)

\* impl From<reqwest::Error> for Error
from_reqwest_error(kind) == Request(kind)

None == [some |-> FALSE]
Some(v) == [some |-> TRUE, v |-> v]

\* fmt_PlaidError writing display_message with {:?}
fmt_PlaidError_debug(e) ==
    "Plaid Error - request ID: " \o e.request_id.s
    \o ", http status: " \o ToString(e.status_code)
    \o ", type: " \o e.error_type.s
    \o ", code: " \o e.error_code.s
    \o ", message: " \o e.error_message.s
    \o ", display_message: "
    \o (IF e.display_message = RNone THEN "None"
        ELSE "Some(" \o e.display_message.v.s \o ")")

\* impl fmt::Display for PlaidError, as to_string() gives it. A StatusCode is
\* written as its number and its canonical reason; an absent display_message
\* is written as the empty string.
fmt_PlaidError(e) ==
    LET canonical_reason ==
            CASE e.status_code = 200 -> "OK"
              [] e.status_code = 201 -> "Created"
              [] e.status_code = 400 -> "Bad Request"
              [] OTHER -> "<unknown status code>"
        unwrap_or(opt, default) == IF opt = RNone THEN default ELSE opt.v.s
    IN "Plaid Error - request ID: " \o e.request_id.s
       \o ", http status: " \o ToString(e.status_code) \o " " \o canonical_reason
       \o ", type: " \o e.error_type.s
       \o ", code: " \o e.error_code.s
       \o ", message: " \o e.error_message.s
       \o ", display_message: " \o unwrap_or(e.display_message, "")

\* impl fmt::Display for Error, as to_string() gives it; the text of a
\* reqwest::Error names its kind
fmt_Error(err) ==
    "Error - " \o (IF err.variant = "Plaid" THEN fmt_PlaidError(err.plaid)
                   ELSE "reqwest error: " \o err.kind)

----------------------------------------------------------------------------
(* Client::send_request, between its suspension points *)

\* reqwest::StatusCode::OK
OK == 200

\* a call of send_request: where it stands (pc), its arguments (url, req and the
\* response type U), the status and body received, the shapes it tried to
\* decode the body as, and the Ok value or the Err value it returned; and, when
\* an endpoint method made the call, that method and the result it returned;
\* and the text of the error, once the caller has formatted it
IdleCall ==
    [pc |-> "idle", url |-> <<>>, req |-> RNone, U |-> TString, status |-> 0,
     body |-> NoBody, decodes |-> <<>>, ok |-> None, err |-> None,
     method |-> "send_request", ret |-> None, text |-> None]

\* an HTTP request handed to the transport
HttpRequest(c, method, url, content_type, body) ==
    [call |-> c, method |-> method, url |-> url, content_type |-> content_type,
     body |-> body]

\* send_request_begin handing the request to the transport a second time
send_request_begin_twice(cl, c, url, req, U) ==
    LET started == [IdleCall EXCEPT !.url = url, !.req = req, !.U = U] IN
    { IF ~target.ok
      THEN [call |-> [started EXCEPT !.pc = "panicked"], wire |-> <<>>]
      ELSE LET body == to_json(req) IN
           IF ~body.ok
           THEN [call |-> [started EXCEPT !.pc = "done",
                                          !.err = Some(from_reqwest_error("builder"))],
                 wire |-> <<>>]
           ELSE [call |-> [started EXCEPT !.pc = "sending"],
                 wire |-> <<HttpRequest(c, "POST", target.url, "application/json", body.v),
                            HttpRequest(c, "POST", target.url, "application/json", body.v)>>]
      : target \in join(get_host(cl), url) }

\* up to the first await: the target is get_host().join(url).unwrap(), a panic
\* when the join fails; json(req) serializes the body, and an error of the
\* builder is returned by send() before anything reaches the transport. The
\* results are a call record and the requests handed to the transport.
send_request_begin(cl, c, url, req, U) ==
    LET started == [IdleCall EXCEPT !.url = url, !.req = req, !.U = U] IN
    { IF ~target.ok
      THEN [call |-> [started EXCEPT !.pc = "panicked"], wire |-> <<>>]
      ELSE LET body == to_json(req) IN
           IF ~body.ok
           THEN [call |-> [started EXCEPT !.pc = "done",
                                          !.err = Some(from_reqwest_error("builder"))],
                 wire |-> <<>>]
           ELSE [call |-> [started EXCEPT !.pc = "sending"],
                 wire |-> <<HttpRequest(c, "POST", target.url, "application/json", body.v)>>]
      : target \in join(get_host(cl), url) }

\* send_request_send_failed going on to decode an empty body as U
send_request_send_failed_decoding(call) ==
    [call EXCEPT !.pc = "done", !.decodes = Append(@, "U"),
                 !.err = Some(from_reqwest_error("decode"))]

\* send().await? when the transport fails: the error is returned
send_request_send_failed(call) ==
    [call EXCEPT !.pc = "done", !.err = Some(from_reqwest_error("request"))]

\* send().await? when a response arrives: its status is read, and the call
\* awaits the body in json()
send_request_response(call, status) ==
    [call EXCEPT !.pc = "reading", !.status = status]

\* send_request_body_failed dropping the error
send_request_body_failed_silently(call) ==
    [call EXCEPT !.pc = "done"]

\* json().await? when the body cannot be read
send_request_body_failed(call) ==
    [call EXCEPT !.pc = "done", !.err = Some(from_reqwest_error("body"))]

\* send_request_body taking the success path on every 2xx status
send_request_body_any_2xx(call, body) ==
    IF call.status \in 200..299
    THEN LET resp == json(call.U, body) IN
         IF resp.ok
         THEN [call EXCEPT !.pc = "done", !.body = body,
                           !.decodes = Append(@, "U"), !.ok = Some(resp.v)]
         ELSE [call EXCEPT !.pc = "done", !.body = body,
                           !.decodes = Append(@, "U"),
                           !.err = Some(from_reqwest_error("decode"))]
    ELSE LET err_resp == json(ErrorResponse, body)
         IN IF err_resp.ok
            THEN [call EXCEPT !.pc = "done", !.body = body,
                              !.decodes = Append(@, "ErrorResponse"),
                              !.err = Some(from_plaid_error(PlaidError(
                                          err_resp.v.fields.request_id,
                                          err_resp.v.fields.error_type,
                                          err_resp.v.fields.error_code,
                                          err_resp.v.fields.error_message,
                                          err_resp.v.fields.display_message,
                                          call.status)))]
            ELSE [call EXCEPT !.pc = "done", !.body = body,
                              !.decodes = Append(@, "ErrorResponse"),
                              !.err = Some(from_reqwest_error("decode"))]

\* send_request_body trying the error envelope when a 200 body does not decode
\* as U
send_request_body_falling_back(call, body) ==
    LET tried == IF call.status = OK THEN json(call.U, body) ELSE SerdeErr
        err_resp == json(ErrorResponse, body)
    IN IF tried.ok
       THEN [call EXCEPT !.pc = "done", !.body = body,
                         !.decodes = Append(@, "U"), !.ok = Some(tried.v)]
       ELSE [call EXCEPT !.pc = "done", !.body = body,
                         !.decodes = IF call.status = OK
                                     THEN @ \o <<"U", "ErrorResponse">>
                                     ELSE Append(@, "ErrorResponse"),
                         !.err = Some(IF err_resp.ok
                                      THEN from_plaid_error(PlaidError(
                                               err_resp.v.fields.request_id,
                                               err_resp.v.fields.error_type,
                                               err_resp.v.fields.error_code,
                                               err_resp.v.fields.error_message,
                                               err_resp.v.fields.display_message,
                                               call.status))
                                      ELSE from_reqwest_error("decode"))]

\* json().await? when the body has arrived: with status OK it is decoded as U
\* and returned as Ok; otherwise it is decoded as ErrorResponse and returned as
\* Error::Plaid with the status; a body that does not decode is the reqwest
\* error
send_request_body(call, body) ==
    IF call.status = OK
    THEN LET resp == json(call.U, body) IN
         IF resp.ok
         THEN [call EXCEPT !.pc = "done", !.body = body,
                           !.decodes = Append(@, "U"), !.ok = Some(resp.v)]
         ELSE [call EXCEPT !.pc = "done", !.body = body,
                           !.decodes = Append(@, "U"),
                           !.err = Some(from_reqwest_error("decode"))]
    ELSE LET status_code == call.status
             err_resp == json(ErrorResponse, body)
         IN IF err_resp.ok
            THEN [call EXCEPT !.pc = "done", !.body = body,
                              !.decodes = Append(@, "ErrorResponse"),
                              !.err = Some(from_plaid_error(PlaidError(
                                          err_resp.v.fields.request_id,
                                          err_resp.v.fields.error_type,
                                          err_resp.v.fields.error_code,
                                          err_resp.v.fields.error_message,
                                          err_resp.v.fields.display_message,
                                          status_code)))]
            ELSE [call EXCEPT !.pc = "done", !.body = body,
                              !.decodes = Append(@, "ErrorResponse"),
                              !.err = Some(from_reqwest_error("decode"))]

----------------------------------------------------------------------------
(* The endpoint methods of impl Client *)

\* the option and configuration structs of the endpoint methods

\* struct GetBalancesOptions
GetBalancesOptions(account_ids) ==
    RStruct([account_ids |-> account_ids],
            {})

\* struct GetAccountsOptions
GetAccountsOptions(account_ids) ==
    RStruct([account_ids |-> account_ids],
            {})

\* struct GetAuthOptions
GetAuthOptions(account_ids) ==
    RStruct([account_ids |-> account_ids],
            {})

\* struct GetHoldingsOptions
GetHoldingsOptions(account_ids) ==
    RStruct([account_ids |-> account_ids],
            {})

\* struct GetIdentityOptions
GetIdentityOptions(account_ids) ==
    RStruct([account_ids |-> account_ids],
            {})

\* struct GetInstitutionsOptions
GetInstitutionsOptions(products, routing_numbers, oauth, include_optional_metadata) ==
    RStruct([products |-> products, routing_numbers |-> routing_numbers, oauth |-> oauth,
        include_optional_metadata |-> include_optional_metadata],
            {"products", "routing_numbers", "oauth"})

\* struct GetInstitutionByIdOptions
GetInstitutionByIdOptions(include_optional_metadata, include_status) ==
    RStruct([include_optional_metadata |-> include_optional_metadata,
        include_status |-> include_status],
            {})

\* struct SearchInstitutionsOptions
SearchInstitutionsOptions(include_optional_metadata, oauth) ==
    RStruct([include_optional_metadata |-> include_optional_metadata, oauth |-> oauth],
            {"oauth"})

\* struct GetInvestmentTransactionsOptions
GetInvestmentTransactionsOptions(account_ids, count, offset) ==
    RStruct([account_ids |-> account_ids, count |-> count, offset |-> offset],
            {"account_ids", "count", "offset"})

\* struct GetLiabilitiesOptions
GetLiabilitiesOptions(account_ids) ==
    RStruct([account_ids |-> account_ids],
            {})

\* struct LinkTokenUser
LinkTokenUser(client_user_id, legal_name, phone_number, phone_number_verified_time, email_address, email_address_verified_time, ssn, date_of_birth) ==
    RStruct([client_user_id |-> client_user_id, legal_name |-> legal_name,
        phone_number |-> phone_number,
        phone_number_verified_time |-> phone_number_verified_time,
        email_address |-> email_address,
        email_address_verified_time |-> email_address_verified_time, ssn |-> ssn,
        date_of_birth |-> date_of_birth],
            {"legal_name", "phone_number", "phone_number_verified_time", "email_address",
                "email_address_verified_time", "ssn", "date_of_birth"})

\* struct GetTransactionsOptions
GetTransactionsOptions(account_ids, count, offset) ==
    RStruct([account_ids |-> account_ids, count |-> count, offset |-> offset],
            {})

\* struct LinkTokenConfigs
LinkTokenConfigs(user, client_name, language, country_codes, products, webhook, link_customization_name, account_filters, redirect_uri, android_package_name) ==
    [user |-> user, client_name |-> client_name, language |-> language,
        country_codes |-> country_codes, products |-> products, webhook |-> webhook,
        link_customization_name |-> link_customization_name,
        account_filters |-> account_filters, redirect_uri |-> redirect_uri,
        android_package_name |-> android_package_name]

\* the endpoint methods: the endpoint, the request value and the response type
\* each hands to send_request. TNamed is a type of the crate whose members are
\* not spelled out.

\* Client::get_balances, with its structs GetBalancesRequest and GetBalancesResponse
get_balances(self, access_token, options) ==
    [method |-> "get_balances", url |-> Chars("accounts/balance/get"),
     req |-> RStruct([client_id |-> RString(self.client_id),
                      secret |-> RString(self.secret),
                      access_token |-> access_token,
                      options |-> options],
                     {"options"}),
     U |-> TStruct([request_id |-> TString,
                    accounts |-> TVec(TNamed("Account"))])]

\* get_accounts sending the access token alone
get_accounts_anonymous(self, access_token, options) ==
    [method |-> "get_accounts", url |-> Chars("accounts/get"),
     req |-> RStruct([access_token |-> access_token,
                      options |-> options],
                     {"options"}),
     U |-> TStruct([request_id |-> TString])]

\* Client::get_accounts, with its structs GetAccountsRequest and GetAccountsResponse
get_accounts(self, access_token, options) ==
    [method |-> "get_accounts", url |-> Chars("accounts/get"),
     req |-> RStruct([client_id |-> RString(self.client_id),
                      secret |-> RString(self.secret),
                      access_token |-> access_token,
                      options |-> options],
                     {"options"}),
     U |-> TStruct([request_id |-> TString,
                    accounts |-> TVec(TNamed("Account")),
                    item |-> TNamed("Item")])]

\* Client::get_auth, with its structs GetAuthRequest and GetAuthResponse
get_auth(self, access_token, options) ==
    [method |-> "get_auth", url |-> Chars("auth/get"),
     req |-> RStruct([client_id |-> RString(self.client_id),
                      secret |-> RString(self.secret),
                      access_token |-> access_token,
                      options |-> options],
                     {"options"}),
     U |-> TStruct([request_id |-> TString,
                    accounts |-> TVec(TNamed("Account")),
                    numbers |-> TNamed("AccountNumberCollection"),
                    item |-> TNamed("Item")])]

\* Client::get_categories, with its structs GetCategoriesRequest and GetCategoriesResponse
get_categories(self) ==
    [method |-> "get_categories", url |-> Chars("categories/get"),
     req |-> GetCategoriesRequest,
     U |-> GetCategoriesResponse]

\* Client::get_deposit_switch, with its structs GetDepositSwitchRequest and GetDepositSwitchResponse
get_deposit_switch(self, deposit_switch_id) ==
    [method |-> "get_deposit_switch", url |-> Chars("deposit_switch/get"),
     req |-> RStruct([client_id |-> RString(self.client_id),
                      secret |-> RString(self.secret),
                      deposit_switch_id |-> deposit_switch_id],
                     {}),
     U |-> TStruct([request_id |-> TString,
                    deposit_switch |-> TString,
                    target_account_id |-> TOption(TString),
                    target_item_id |-> TOption(TString),
                    state |-> TString,
                    account_has_multiple_allocations |-> TOption(TBool),
                    is_allocated_remainder |-> TOption(TBool),
                    percent_allocated |-> TOption(TNumber),
                    amount_allocated |-> TOption(TNumber),
                    date_created |-> TNamed("NaiveDate"),
                    date_completed |-> TOption(TNamed("NaiveDate"))])]

\* Client::create_deposit_switch, with its structs CreateDepositSwitchRequest and CreateDepositSwitchResponse
create_deposit_switch(self, target_account_id, target_access_token) ==
    [method |-> "create_deposit_switch", url |-> Chars("deposit_switch/create"),
     req |-> RStruct([client_id |-> RString(self.client_id),
                      secret |-> RString(self.secret),
                      target_account_id |-> target_account_id,
                      target_access_token |-> target_access_token],
                     {}),
     U |-> TStruct([request_id |-> TString,
                    deposit_switch_id |-> TString])]

\* Client::get_holdings, with its structs GetHoldingsRequest and GetHoldingsResponse
get_holdings(self, access_token, options) ==
    [method |-> "get_holdings", url |-> Chars("investments/holdings/get"),
     req |-> RStruct([client_id |-> RString(self.client_id),
                      secret |-> RString(self.secret),
                      access_token |-> access_token,
                      options |-> options],
                     {"options"}),
     U |-> TStruct([request_id |-> TString,
                    accounts |-> TVec(TNamed("Account")),
                    holdings |-> TVec(TNamed("Holding")),
                    securities |-> TVec(TNamed("Security")),
                    item |-> TNamed("Item")])]

\* Client::get_identity, with its structs GetIdentityRequest and GetIdentityResponse
get_identity(self, access_token, options) ==
    [method |-> "get_identity", url |-> Chars("identity/get"),
     req |-> RStruct([client_id |-> RString(self.client_id),
                      secret |-> RString(self.secret),
                      access_token |-> access_token,
                      options |-> options],
                     {"options"}),
     U |-> TStruct([request_id |-> TString,
                    accounts |-> TVec(TNamed("AccountWithOwners")),
                    item |-> TNamed("Item")])]

\* Client::get_institution_by_id, with its structs GetInstitutionByIdRequest and GetInstitutionByIdResponse
get_institution_by_id(self, institution_id, country_codes, options) ==
    [method |-> "get_institution_by_id", url |-> Chars("institutions/get_by_id"),
     req |-> RStruct([client_id |-> RString(self.client_id),
                      secret |-> RString(self.secret),
                      institution_id |-> institution_id,
                      country_codes |-> country_codes,
                      options |-> options],
                     {"options"}),
     U |-> TStruct([request_id |-> TString,
                    institution |-> Institution])]

\* get_institutions refusing an empty country_codes before anything is sent
get_institutions_validating(self, count, offset, country_codes, options) ==
    [method |-> "get_institutions", url |-> Chars("institutions/get"),
     req |-> IF country_codes = RVec(<<>>) THEN RUnserializable
             ELSE RStruct([client_id |-> RString(self.client_id),
                           secret |-> RString(self.secret),
                           count |-> count,
                           offset |-> offset,
                           country_codes |-> country_codes,
                           options |-> options],
                          {"options"}),
     U |-> TStruct([request_id |-> TString,
                    institutions |-> TVec(Institution),
                    total |-> TNumber])]

\* Client::get_institutions, with its structs GetInstitutionsRequest and GetInstitutionsResponse
get_institutions(self, count, offset, country_codes, options) ==
    [method |-> "get_institutions", url |-> Chars("institutions/get"),
     req |-> RStruct([client_id |-> RString(self.client_id),
                      secret |-> RString(self.secret),
                      count |-> count,
                      offset |-> offset,
                      country_codes |-> country_codes,
                      options |-> options],
                     {"options"}),
     U |-> TStruct([request_id |-> TString,
                    institutions |-> TVec(Institution),
                    total |-> TNumber])]

\* Client::search_institutions, with its structs SearchInstitutionsRequest and SearchInstitutionsResponse
search_institutions(self, query, products, country_codes, options) ==
    [method |-> "search_institutions", url |-> Chars("institutions/search"),
     req |-> RStruct([client_id |-> RString(self.client_id),
                      secret |-> RString(self.secret),
                      query |-> query,
                      products |-> products,
                      country_codes |-> country_codes,
                      options |-> options],
                     {"options"}),
     U |-> TStruct([request_id |-> TString,
                    institutions |-> TVec(Institution)])]

\* Client::get_investment_transactions, with its structs GetInvestmentTransactionsRequest and GetInvestmentTransactionsResponse
get_investment_transactions(self, access_token, start_date, end_date, options) ==
    [method |-> "get_investment_transactions",
        url |-> Chars("investments/transactions/get"),
     req |-> RStruct([client_id |-> RString(self.client_id),
                      secret |-> RString(self.secret),
                      access_token |-> access_token,
                      start_date |-> start_date,
                      end_date |-> end_date,
                      options |-> options],
                     {"options"}),
     U |-> TStruct([request_id |-> TString,
                    accounts |-> TVec(TNamed("Account")),
                    securities |-> TVec(TNamed("Security")),
                    investment_transactions |-> TVec(TNamed("InvestmentTransaction")),
                    total_investment_transactions |-> TNumber,
                    item |-> TNamed("Item")])]

\* Client::get_item, with its structs GetItemRequest and GetItemResponse
get_item(self, access_token) ==
    [method |-> "get_item", url |-> Chars("item/get"),
     req |-> RStruct([client_id |-> RString(self.client_id),
                      secret |-> RString(self.secret),
                      access_token |-> access_token],
                     {}),
     U |-> TStruct([request_id |-> TString,
                    item |-> TNamed("Item"),
                    status |-> TOption(TNamed("ItemStatus")),
                    access_token |-> TOption(TString)])]

\* Client::remove_item, with its structs RemoveItemRequest and RemoveItemResponse
remove_item(self, access_token) ==
    [method |-> "remove_item", url |-> Chars("item/remove"),
     req |-> RStruct([client_id |-> RString(self.client_id),
                      secret |-> RString(self.secret),
                      access_token |-> access_token],
                     {}),
     U |-> TStruct([request_id |-> TString])]

\* Client::update_item_webhook, with its structs UpdateItemWebhookRequest and UpdateItemWebhookResponse
update_item_webhook(self, access_token, webhook) ==
    [method |-> "update_item_webhook", url |-> Chars("item/webhook/update"),
     req |-> RStruct([client_id |-> RString(self.client_id),
                      secret |-> RString(self.secret),
                      access_token |-> access_token,
                      webhook |-> webhook],
                     {}),
     U |-> TStruct([request_id |-> TString,
                    item |-> TNamed("Item")])]

\* Client::invalidate_access_token, with its structs InvalidateAccessTokenRequest and InvalidateAccessTokenResponse
invalidate_access_token(self, access_token) ==
    [method |-> "invalidate_access_token", url |-> Chars("item/access_token/invalidate"),
     req |-> RStruct([client_id |-> RString(self.client_id),
                      secret |-> RString(self.secret),
                      access_token |-> access_token],
                     {}),
     U |-> TStruct([request_id |-> TString,
                    new_access_token |-> TString])]

\* Client::create_public_token, with its structs CreatePublicTokenRequest and CreatePublicTokenResponse
create_public_token(self, access_token) ==
    [method |-> "create_public_token", url |-> Chars("item/public_token/create"),
     req |-> RStruct([client_id |-> RString(self.client_id),
                      secret |-> RString(self.secret),
                      access_token |-> access_token],
                     {}),
     U |-> TStruct([request_id |-> TString,
                    public_token |-> TString])]

\* Client::exchange_public_token, with its structs ExchangePublicTokenRequest and ExchangePublicTokenResponse
exchange_public_token(self, public_token) ==
    [method |-> "exchange_public_token", url |-> Chars("item/public_token/exchange"),
     req |-> RStruct([client_id |-> RString(self.client_id),
                      secret |-> RString(self.secret),
                      public_token |-> public_token],
                     {}),
     U |-> TStruct([request_id |-> TString,
                    access_token |-> TString,
                    item_id |-> TString])]

\* Client::get_liabilities, with its structs GetLiabilitiesRequest and GetLiabilitiesResponse
get_liabilities(self, access_token, options) ==
    [method |-> "get_liabilities", url |-> Chars("liabilities/get"),
     req |-> RStruct([client_id |-> RString(self.client_id),
                      secret |-> RString(self.secret),
                      access_token |-> access_token,
                      options |-> options],
                     {"options"}),
     U |-> TStruct([request_id |-> TString,
                    accounts |-> TVec(TNamed("Account")),
                    item |-> TNamed("Item"),
                    liabilities |-> TNamed("Liabilities")])]

\* Client::create_link_token, with its structs CreateLinkTokenRequest and CreateLinkTokenResponse
create_link_token(self, configs) ==
    [method |-> "create_link_token", url |-> Chars("link/token/create"),
     req |-> RStruct([client_id |-> RString(self.client_id),
                      secret |-> RString(self.secret),
                      client_name |-> configs.client_name,
                      language |-> configs.language,
                      country_codes |-> configs.country_codes,
                      user |-> configs.user,
                      products |-> configs.products,
                      webhook |-> configs.webhook,
                      link_customization_name |-> configs.link_customization_name,
                      account_filters |-> configs.account_filters,
                      redirect_uri |-> configs.redirect_uri,
                      android_package_name |-> configs.android_package_name],
                     {"products", "webhook", "link_customization_name", "account_filters",
                         "redirect_uri", "android_package_name"}),
     U |-> TStruct([request_id |-> TString,
                    link_token |-> TString,
                    expiration |-> TNamed("DateTime<Utc>")])]

\* Client::get_link_token, with its structs GetLinkTokenRequest and GetLinkTokenResponse
get_link_token(self, link_token) ==
    [method |-> "get_link_token", url |-> Chars("link/token/get"),
     req |-> RStruct([client_id |-> RString(self.client_id),
                      secret |-> RString(self.secret),
                      link_token |-> link_token],
                     {}),
     U |-> TStruct([request_id |-> TString,
                    link_token |-> TString,
                    created_at |-> TOption(TNamed("DateTime<Utc>")),
                    expiration |-> TOption(TNamed("DateTime<Utc>")),
                    metadata |-> TStruct([initial_products |-> TVec(TString),
                                webhook |-> TOption(TString),
                                country_codes |-> TVec(TString),
                                language |-> TOption(TString),
                                account_filters |-> TNamed("HashMap"),
                                redirect_uri |-> TOption(TString),
                                client_name |-> TOption(TString)])])]

\* Client::create_processor_token, with its structs CreateProcessorTokenRequest and CreateProcessorTokenResponse
create_processor_token(self, access_token, account_id, processor) ==
    [method |-> "create_processor_token", url |-> Chars("processor/token/create"),
     req |-> RStruct([client_id |-> RString(self.client_id),
                      secret |-> RString(self.secret),
                      access_token |-> access_token,
                      account_id |-> account_id,
                      processor |-> processor],
                     {}),
     U |-> TStruct([request_id |-> TString,
                    processor_token |-> TString])]

\* Client::create_sandbox_public_token, with its structs CreateSandboxPublicTokenRequest and CreateSandboxPublicTokenResponse
create_sandbox_public_token(self, institution_id, initial_products) ==
    [method |-> "create_sandbox_public_token", url |-> Chars("sandbox/public_token/create"),
     req |-> RStruct([client_id |-> RString(self.client_id),
                      secret |-> RString(self.secret),
                      institution_id |-> institution_id,
                      initial_products |-> initial_products],
                     {}),
     U |-> TStruct([request_id |-> TString,
                    public_token |-> TString])]

\* Client::reset_sandbox_item, with its structs ResetSandboxItemRequest and ResetSandboxItemResponse
reset_sandbox_item(self, access_token) ==
    [method |-> "reset_sandbox_item", url |-> Chars("sandbox/item/reset_login"),
     req |-> RStruct([client_id |-> RString(self.client_id),
                      secret |-> RString(self.secret),
                      access_token |-> access_token],
                     {}),
     U |-> TStruct([request_id |-> TString,
                    reset_login |-> TBool])]

\* Client::set_sandbox_verification_status, with its structs SetSandboxItemVerificationStatusRequest and SetSandboxItemVerificationStatusResponse
set_sandbox_verification_status(self, access_token, account_id, verification_status) ==
    [method |-> "set_sandbox_verification_status",
        url |-> Chars("sandbox/item/set_verification_status"),
     req |-> RStruct([client_id |-> RString(self.client_id),
                      secret |-> RString(self.secret),
                      access_token |-> access_token,
                      account_id |-> account_id,
                      verification_status |-> verification_status],
                     {}),
     U |-> TStruct([request_id |-> TString])]

\* Client::fire_webhook, with its structs FireWebhookRequest and FireWebhookResponse
fire_webhook(self, access_token, webhook_code) ==
    [method |-> "fire_webhook", url |-> Chars("sandbox/item/fire_webhook"),
     req |-> RStruct([client_id |-> RString(self.client_id),
                      secret |-> RString(self.secret),
                      access_token |-> access_token,
                      webhook_code |-> webhook_code],
                     {}),
     U |-> TStruct([request_id |-> TString,
                    webhook_fired |-> TBool])]

\* Client::sync_transactions, with its structs SyncTransactionsRequest and SyncTransactionsResponse
sync_transactions(self, access_token, cursor, count) ==
    [method |-> "sync_transactions", url |-> Chars("transactions/sync"),
     req |-> RStruct([client_id |-> RString(self.client_id),
                      secret |-> RString(self.secret),
                      access_token |-> access_token,
                      cursor |-> cursor,
                      count |-> count],
                     {}),
     U |-> TStruct([request_id |-> TString,
                    next_cursor |-> TString,
                    has_more |-> TBool,
                    added |-> TVec(TNamed("Transaction"))])]

\* get_transactions without skip_serializing_if on options
get_transactions_sending_null(self, access_token, start_date, end_date, options) ==
    [method |-> "get_transactions", url |-> Chars("transactions/get"),
     req |-> RStruct([client_id |-> RString(self.client_id),
                      secret |-> RString(self.secret),
                      access_token |-> access_token,
                      start_date |-> start_date,
                      end_date |-> end_date,
                      options |-> options],
                     {}),
     U |-> TStruct([request_id |-> TString,
                    accounts |-> TVec(TNamed("Account")),
                    transactions |-> TVec(TNamed("Transaction")),
                    total_transactions |-> TNumber,
                    item |-> TNamed("Item")])]

\* Client::get_transactions, with its structs GetTransactionsRequest and GetTransactionsResponse
get_transactions(self, access_token, start_date, end_date, options) ==
    [method |-> "get_transactions", url |-> Chars("transactions/get"),
     req |-> RStruct([client_id |-> RString(self.client_id),
                      secret |-> RString(self.secret),
                      access_token |-> access_token,
                      start_date |-> start_date,
                      end_date |-> end_date,
                      options |-> options],
                     {"options"}),
     U |-> TStruct([request_id |-> TString,
                    accounts |-> TVec(TNamed("Account")),
                    transactions |-> TVec(TNamed("Transaction")),
                    total_transactions |-> TNumber,
                    item |-> TNamed("Item")])]

\* Client::refresh_transactions, with its structs RefreshTransactionsRequest and RefreshTransactionsResponse
refresh_transactions(self, access_token) ==
    [method |-> "refresh_transactions", url |-> Chars("transactions/refresh"),
     req |-> RStruct([client_id |-> RString(self.client_id),
                      secret |-> RString(self.secret),
                      access_token |-> access_token],
                     {}),
     U |-> TStruct([request_id |-> TString])]

\* Client::get_webhook_verification_key, with its structs GetWebhookVerificationKeyRequest and GetWebhookVerificationKeyResponse
get_webhook_verification_key(self, key_id) ==
    [method |-> "get_webhook_verification_key",
        url |-> Chars("webhook_verification_key/get"),
     req |-> RStruct([client_id |-> RString(self.client_id),
                      secret |-> RString(self.secret),
                      key_id |-> key_id],
                     {}),
     U |-> TStruct([request_id |-> TString,
                    key |-> TNamed("WebhookVerificationKey")])]

\* the methods besides send_request that return what send_request returns
EndpointMethods ==
    {"get_balances", "get_accounts", "get_auth", "get_categories", "get_deposit_switch",
     "create_deposit_switch", "get_holdings", "get_identity", "get_institution_by_id",
     "get_institutions", "search_institutions", "get_investment_transactions", "get_item",
     "remove_item", "update_item_webhook", "invalidate_access_token", "create_public_token",
     "exchange_public_token", "get_liabilities", "create_link_token", "get_link_token",
     "create_processor_token", "create_sandbox_public_token", "reset_sandbox_item",
     "set_sandbox_verification_status", "fire_webhook", "sync_transactions",
     "get_transactions", "refresh_transactions", "get_webhook_verification_key"}

\* Result<U>
Ok(v) == [is_ok |-> TRUE, v |-> v]
Err(e) == [is_ok |-> FALSE, e |-> e]

\* endpoint_await turning every error into an Ok of no value
endpoint_await_swallowing(call) ==
    IF call.method \in EndpointMethods /\ call.pc = "done"
    THEN [call EXCEPT !.ret = Some(Ok(IF call.ok.some THEN call.ok.v ELSE RNone))]
    ELSE call

\* self.send_request(..).await as the last expression of an endpoint method:
\* once send_request has returned, the method returns that result
endpoint_await(call) ==
    IF call.method \in EndpointMethods /\ call.pc = "done"
    THEN [call EXCEPT !.ret = Some(IF call.ok.some THEN Ok(call.ok.v)
                                                   ELSE Err(call.err.v))]
    ELSE call

\* an endpoint method is called with the arguments that make e, and runs to
\* the first await of its send_request
endpoint_begin(cl, c, e) ==
    { [call |-> endpoint_await([r.call EXCEPT !.method = e.method]), wire |-> r.wire]
      : r \in send_request_begin(cl, c, e.url, e.req, e.U) }

\* send_request_cancel handing an error to the caller
send_request_cancel_partial(call) ==
    [call EXCEPT !.pc = "cancelled", !.err = Some(from_reqwest_error("request"))]

\* the future of a call is dropped at an await: nothing is returned
send_request_cancel(call) == [call EXCEPT !.pc = "cancelled"]

----------------------------------------------------------------------------
(* Actions *)

\* Client::new(client_id, secret, environment)
New(client_id, secret, environment) ==
    /\ ctor = "none"
    /\ \E built \in build :
          LET r == new(built, client_id, secret, environment) IN
          IF r.panic
          THEN ctor' = "panic" /\ client' = NoClient
          ELSE ctor' = "new" /\ client' = r.v
    /\ UNCHANGED <<environ, calls, net>>

\* Client::from_env()
FromEnv ==
    /\ ctor = "none"
    /\ \E built \in build :
          LET r == from_env(built, environ) IN
          IF r.panic
          THEN ctor' = "panic" /\ client' = NoClient
          ELSE ctor' = "from_env" /\ client' = r.v
    /\ UNCHANGED <<environ, calls, net>>

\* SendRequest refusing to send once a call on the client has failed
SendRequest_tripped(c, url, req, U) ==
    /\ client.made
    /\ calls[c].pc = "idle"
    /\ IF \E d \in DOMAIN calls : calls[d].err.some
       THEN /\ calls' = [calls EXCEPT ![c] =
                            [IdleCall EXCEPT !.url = url, !.req = req, !.U = U, !.pc = "done",
                                             !.err = Some(from_reqwest_error("request"))]]
            /\ net' = net
       ELSE \E r \in send_request_begin(client, c, url, req, U) :
                /\ calls' = [calls EXCEPT ![c] = r.call]
                /\ net' = net \o r.wire
    /\ UNCHANGED <<environ, ctor, client>>

\* client.send_request::<T, U>(url, req) is called and runs to its first await
SendRequest(c, url, req, U) ==
    /\ client.made
    /\ calls[c].pc = "idle"
    /\ \E r \in send_request_begin(client, c, url, req, U) :
          /\ calls' = [calls EXCEPT ![c] = r.call]
          /\ net' = net \o r.wire
    /\ UNCHANGED <<environ, ctor, client>>

\* TransportFails moving the client to another environment
TransportFails_rebinding(c) ==
    /\ calls[c].pc = "sending"
    /\ calls' = [calls EXCEPT ![c] = endpoint_await(send_request_send_failed(@))]
    /\ client' = [client EXCEPT !.environment = "Development"]
    /\ UNCHANGED <<environ, ctor, net>>

\* the transport fails before a response is obtained
TransportFails(c) ==
    /\ calls[c].pc = "sending"
    /\ calls' = [calls EXCEPT ![c] = endpoint_await(send_request_send_failed(@))]
    /\ UNCHANGED <<environ, ctor, client, net>>

\* the status line and headers of the response arrive
ResponseArrives(c, status) ==
    /\ calls[c].pc = "sending"
    /\ calls' = [calls EXCEPT ![c] = send_request_response(@, status)]
    /\ UNCHANGED <<environ, ctor, client, net>>

\* the transport fails while the body is read
BodyFails(c) ==
    /\ calls[c].pc = "reading"
    /\ calls' = [calls EXCEPT ![c] = endpoint_await(send_request_body_failed(@))]
    /\ UNCHANGED <<environ, ctor, client, net>>

\* BodyArrives decoding the body under the status of the first call that
\* awaits a body
BodyArrives_crossed(c, body) ==
    /\ calls[c].pc = "reading"
    /\ LET first == CHOOSE d \in DOMAIN calls :
                        /\ calls[d].pc = "reading"
                        /\ \A e \in DOMAIN calls : calls[e].pc = "reading" => d <= e
       IN calls' = [calls EXCEPT ![c] =
                       endpoint_await(send_request_body(
                           [@ EXCEPT !.status = calls[first].status], body))]
    /\ UNCHANGED <<environ, ctor, client, net>>

\* the whole body of the response arrives
BodyArrives(c, body) ==
    /\ calls[c].pc = "reading"
    /\ calls' = [calls EXCEPT ![c] = endpoint_await(send_request_body(@, body))]
    /\ UNCHANGED <<environ, ctor, client, net>>

\* an endpoint method of the client is called, e its endpoint, request and
\* response type, and runs to its first await
Endpoint(c, e) ==
    /\ client.made
    /\ calls[c].pc = "idle"
    /\ \E r \in endpoint_begin(client, c, e) :
          /\ calls' = [calls EXCEPT ![c] = r.call]
          /\ net' = net \o r.wire
    /\ UNCHANGED <<environ, ctor, client>>

\* Cancel as a timeout of the dispatcher: the call returns an error of its own
Cancel_timing_out(c) ==
    /\ calls[c].pc \in {"sending", "reading"}
    /\ calls' = [calls EXCEPT ![c] =
                    endpoint_await([@ EXCEPT !.pc = "done",
                                             !.err = Some(from_reqwest_error("timeout"))])]
    /\ UNCHANGED <<environ, ctor, client, net>>

\* the caller drops the future of call c while it awaits the response or the
\* body
Cancel(c) ==
    /\ calls[c].pc \in {"sending", "reading"}
    /\ calls' = [calls EXCEPT ![c] = send_request_cancel(@)]
    /\ UNCHANGED <<environ, ctor, client, net>>

\* the caller formats the error that call c returned: err.to_string()
ToString_Error(c) ==
    /\ calls[c].pc = "done" /\ calls[c].err.some /\ ~calls[c].text.some
    /\ calls' = [calls EXCEPT ![c].text = Some(fmt_Error(calls[c].err.v))]
    /\ UNCHANGED <<environ, ctor, client, net>>

----------------------------------------------------------------------------
(* Inputs *)

MaxLen == 4      \* the longest endpoint string
MaxList == 2     \* the longest list of categories in a body
MaxHier == 2     \* the longest hierarchy of a category
MaxCalls == 2    \* the calls of send_request made on the client

SeqsUpTo(S, n) == UNION {[1..k -> S] : k \in 0..n}

EnvVars == {"PLAID_ENVIRONMENT", "PLAID_CLIENT_ID", "PLAID_SECRET"}

SANDBOX == <<"S","A","N","D","B","O","X">>
DEVELOPMENT == <<"D","E","V","E","L","O","P","M","E","N","T">>
PRODUCTION == <<"P","R","O","D","U","C","T","I","O","N">>

\* word in every mix of upper and lower case
CaseVariants(word) ==
    { [i \in 1..Len(word) |-> IF i \in up THEN ToUpperChar(word[i]) ELSE ToLowerChar(word[i])]
      : up \in SUBSET (1..Len(word)) }

\* selector values that are none of the three names
OtherSelectors ==
    { <<>>, <<"S","A","N","D">>, <<"s","a","n","d","b","o","x"," ">>,
      <<"S","A","N","D","B","O","X","X">>, <<"p","r","o","d">>, <<"t","e","s","t">> }

ClientIdText == <<"i","d">>
SecretText == <<"s","e","c","r","e","t">>

Environs(selectors, ids, secrets) ==
    { [PLAID_ENVIRONMENT |-> sel, PLAID_CLIENT_ID |-> id, PLAID_SECRET |-> secret]
      : sel \in selectors, id \in ids, secret \in secrets }

AllSelectors ==
    {Absent, NotUnicode}
    \cup { Value(v) : v \in CaseVariants(SANDBOX) \cup CaseVariants(DEVELOPMENT)
                            \cup CaseVariants(PRODUCTION) \cup OtherSelectors }

\* the process environment of a run that sets all three variables
SetEnvirons == Environs({Value(SANDBOX)}, {Value(ClientIdText)}, {Value(SecretText)})

\* endpoint strings
Alphabet == {"a", "/"}
Endpoints == SeqsUpTo(Alphabet, MaxLen)
CategoriesGet == <<"c","a","t","e","g","o","r","i","e","s","/","g","e","t">>

\* request values
\* a GetAccountsRequest without options
GetAccountsRequest ==
    RStruct([client_id |-> RString("id"), secret |-> RString("secret"),
             access_token |-> RString("access-sandbox-1"), options |-> RNone],
            {"options"})
Requests == {GetCategoriesRequest, GetAccountsRequest, RUnserializable}

Statuses == {OK, 201, 400}

\* JSON objects derived from an object: a member removed, a member set
Without(doc, f) == JObj([g \in DOMAIN doc.members \ {f} |-> doc.members[g]])
With(doc, f, v) ==
    JObj([g \in DOMAIN doc.members \cup {f} |-> IF g = f THEN v ELSE doc.members[g]])

\* the ways a document can fail to be doc: a member missing, null or a number
BrokenOf(doc) ==
    UNION { {Without(doc, f), With(doc, f, JNull), With(doc, f, JNum(1))}
            : f \in DOMAIN doc.members }

Words == {"Bank Fees", "Overdraft"}

CategoryDocs ==
    { JObj([category_id |-> JStr("10000000"), group |-> JStr("special"),
            hierarchy |-> JArr([i \in 1..Len(h) |-> JStr(h[i])])])
      : h \in SeqsUpTo(Words, MaxHier) }

\* bodies of the shape of GetCategoriesResponse
CategoriesDocs ==
    { JObj([categories |-> JArr(cs), request_id |-> JStr("req-1")])
      : cs \in SeqsUpTo(CategoryDocs, MaxList) }

\* bodies of the shape of ErrorResponse, display_message a string or null
ErrorDocs ==
    { JObj([request_id |-> JStr("req-2"), error_type |-> JStr(ty),
            error_code |-> JStr("INVALID_ACCESS_TOKEN"),
            error_message |-> JStr("could not find matching access token"),
            display_message |-> dm])
      : ty \in {"INVALID_INPUT", "ITEM_ERROR"}, dm \in {JNull, JStr("Try again")} }

GoodDocs == CategoriesDocs \cup ErrorDocs

\* the documents whose members are made to differ from the shape: the error
\* documents and the category documents of at most one category
VariedDocs ==
    ErrorDocs \cup { d \in CategoriesDocs : Len(d.members.categories.items) <= 1 }

RichBodies ==
    {NotJson}
    \cup { Json(d) : d \in GoodDocs }
    \cup { Json(With(d, "extra", JStr("x"))) : d \in VariedDocs }
    \cup { Json(b) : b \in UNION { BrokenOf(d) : d \in VariedDocs } }
    \cup { Json(JObj([categories |-> JArr(<<c, Without(c, "group")>>),
                      request_id |-> JStr("req-1")])) : c \in CategoryDocs }

FewBodies ==
    { NotJson,
      Json(JObj([categories |-> JArr(<<>>), request_id |-> JStr("req-1")])),
      Json(JObj([request_id |-> JStr("req-2"), error_type |-> JStr("INVALID_INPUT"),
                 error_code |-> JStr("INVALID_ACCESS_TOKEN"),
                 error_message |-> JStr("could not find matching access token"),
                 display_message |-> JNull])) }

\* the calls of the endpoint methods on the client self
EndpointCalls(self) ==
    LET AccessToken == RString("access-sandbox-1")
        AccountIds == RVec(<<RString("account-1")>>)
        CountryCodes == RVec(<<RString("US")>>)
        Products == RVec(<<RString("transactions")>>)
        StartDate == RNaiveDate(2021, 3, 9)
        EndDate == RNaiveDate(2021, 11, 30)
        Configs ==
            LinkTokenConfigs(
                LinkTokenUser(RString("user-1"), RNone, RNone, RNone,
                              RSome(RString("user@example.com")), RNone, RNone, RNone),
                RString("app"), RString("en"), CountryCodes, RSome(Products),
                RNone, RNone, RNone, RNone, RNone)
        \* Some(options) of account ids, and None
        AccountIdOptions(Options(_)) ==
            {RNone, RSome(Options(RNone)), RSome(Options(RSome(AccountIds)))}
    IN
    { get_balances(self, AccessToken, o) : o \in AccountIdOptions(GetBalancesOptions) }
    \cup { get_accounts(self, AccessToken, o) : o \in AccountIdOptions(GetAccountsOptions) }
    \cup { get_auth(self, AccessToken, o) : o \in AccountIdOptions(GetAuthOptions) }
    \cup { get_holdings(self, AccessToken, o) : o \in AccountIdOptions(GetHoldingsOptions) }
    \cup { get_identity(self, AccessToken, o) : o \in AccountIdOptions(GetIdentityOptions) }
    \cup { get_liabilities(self, AccessToken, o)
             : o \in {RNone, RSome(GetLiabilitiesOptions(AccountIds))} }
    \cup { get_institution_by_id(self, RString("ins_1"), CountryCodes, o)
             : o \in {RNone, RSome(GetInstitutionByIdOptions(RBool(TRUE), RBool(FALSE)))} }
    \cup { get_institutions(self, RNumber(10), RNumber(0), CountryCodes, o)
             : o \in {RNone,
                      RSome(GetInstitutionsOptions(RVec(<<>>), RVec(<<>>), RNone, RBool(FALSE))),
                      RSome(GetInstitutionsOptions(Products, RVec(<<>>), RSome(RBool(TRUE)),
                                                   RBool(TRUE)))} }
    \cup { search_institutions(self, RString("bank"), Products, CountryCodes, o)
             : o \in {RNone, RSome(SearchInstitutionsOptions(RBool(FALSE), RNone))} }
    \cup { get_investment_transactions(self, AccessToken, StartDate, EndDate, o)
             : o \in {RNone,
                      RSome(GetInvestmentTransactionsOptions(RNone, RSome(RNumber(10)), RNone))} }
    \cup { get_transactions(self, AccessToken, StartDate, EndDate, o)
             : o \in {RNone, RSome(GetTransactionsOptions(RNone, RNumber(10), RNumber(0)))} }
    \cup { sync_transactions(self, AccessToken, cursor, RNumber(100))
             : cursor \in {RNone, RSome(RString("cursor-1"))} }
    \* arguments the remote system refuses: no country code, no access token, a
    \* count below zero
    \cup { get_institutions(self, RNumber(2), RNumber(1), RVec(<<>>), RNone),
           get_institutions(self, RNumber(0 - 1), RNumber(0), CountryCodes, RNone),
           get_institution_by_id(self, RString("ins_1"), RVec(<<>>), RNone),
           get_accounts(self, RString(""), RNone),
           search_institutions(self, RString(""), RVec(<<>>), RVec(<<>>), RNone) }
    \cup { get_categories(self),
           get_deposit_switch(self, RString("switch-1")),
           create_deposit_switch(self, RString("account-1"), AccessToken),
           get_item(self, AccessToken),
           remove_item(self, AccessToken),
           update_item_webhook(self, AccessToken, RString("https://example.com/hook")),
           invalidate_access_token(self, AccessToken),
           create_public_token(self, AccessToken),
           exchange_public_token(self, RString("public-sandbox-1")),
           create_link_token(self, Configs),
           get_link_token(self, RString("link-sandbox-1")),
           create_processor_token(self, AccessToken, RString("account-1"), RString("dwolla")),
           create_sandbox_public_token(self, RString("ins_1"), Products),
           reset_sandbox_item(self, AccessToken),
           set_sandbox_verification_status(self, AccessToken, RString("account-1"),
                                           RString("verification_expired")),
           fire_webhook(self, AccessToken, RString("DEFAULT_UPDATE")),
           refresh_transactions(self, AccessToken),
           get_webhook_verification_key(self, RString("key-1")) }

\* a JSON document of the shape of ty: every Option null, every Vec of one
\* item, every bool true
RECURSIVE SampleDoc(_)
SampleDoc(ty) ==
    CASE ty.t = "String" -> JStr("x")
      [] ty.t = "Bool" -> JBool(TRUE)
      [] ty.t = "Number" -> JNum(1)
      [] ty.t = "Named" -> JOf(ty.name)
      [] ty.t = "Option" -> JNull
      [] ty.t = "Vec" -> JArr(<<SampleDoc(ty.of)>>)
      [] ty.t = "Struct" -> JObj([f \in DOMAIN ty.fields |-> SampleDoc(ty.fields[f])])

\* the bodies answered to the calls Calls: one of the shape of each response
\* type, an error envelope, a list of no categories and bytes that are no JSON
BodiesFor(Calls(_)) ==
    FewBodies \cup { Json(SampleDoc(e.U)) : e \in Calls(new(TRUE, "id", "secret", "Sandbox").v) }

\* the answers of a backend to an institution lookup: the institution under
\* one of two names, or an error envelope, each under one of two request ids
InstitutionBodies ==
    { Json(JObj([request_id |-> JStr(id),
                 institution |->
                     JObj([institution_id |-> JStr("ins_1"), name |-> JStr(name),
                           products |-> JArr(<<JStr("transactions")>>),
                           country_codes |-> JArr(<<JStr("US")>>),
                           url |-> JNull, primary_color |-> JNull, logo |-> JNull,
                           routing_numbers |-> JNull, oauth |-> JBool(FALSE)])]))
      : id \in {"req-1", "req-2"}, name \in {"Bank A", "Bank B"} }
    \cup { Json(JObj([request_id |-> JStr(id), error_type |-> JStr("INVALID_INPUT"),
                      error_code |-> JStr("INVALID_INSTITUTION"),
                      error_message |-> JStr("invalid institution_id provided"),
                      display_message |-> JNull]))
           : id \in {"req-1", "req-2"} }

\* an institution lookup by a fixed identifier
TwiceCalls(self) ==
    {get_institution_by_id(self, RString("ins_1"), RVec(<<RString("US")>>), RNone)}

\* the endpoint call made side by side with calls of send_request
SessionCalls(self) == {get_accounts(self, RString("access-sandbox-1"), RNone)}

----------------------------------------------------------------------------
(* Specifications *)

InitWith(environs, ids) ==
    /\ environ \in environs
    /\ ctor = "none"
    /\ client = NoClient
    /\ calls = [c \in ids |-> IdleCall]
    /\ net = <<>>

\* the endpoint calls that can be made: none before the client exists
OnClient(Calls(_)) == IF client.made THEN Calls(client) ELSE {}

\* the steps of a client and of the calls ids made on it
Step(environments, ids, endpoints, requests, bodies) ==
    \/ \E e \in environments : New("id", "secret", e)
    \/ FromEnv
    \/ \E c \in ids, url \in endpoints, req \in requests :
          SendRequest(c, url, req, GetCategoriesResponse)
    \/ \E c \in ids : TransportFails(c)
    \/ \E c \in ids, status \in Statuses : ResponseArrives(c, status)
    \/ \E c \in ids : BodyFails(c)
    \/ \E c \in ids, body \in bodies : BodyArrives(c, body)
    \/ \E c \in ids : Cancel(c)

\* a client and MaxCalls calls on it, in any interleaving
Next == Step(Environment, 1..MaxCalls, {CategoriesGet, <<"/", "/">>}, Requests, FewBodies)
Spec == InitWith(SetEnvirons, 1..MaxCalls) /\ [][Next]_vars

\* Client::from_env under every process environment
NextEnv == FromEnv
SpecEnv ==
    /\ InitWith(Environs(AllSelectors, {Absent, NotUnicode, Value(ClientIdText)},
                         {Absent, NotUnicode, Value(SecretText)}), {1})
    /\ [][NextEnv]_vars

\* one call with every endpoint string
NextUrl == Step(Environment, {1}, Endpoints, Requests, FewBodies)
SpecUrl == InitWith(SetEnvirons, {1}) /\ [][NextUrl]_vars

\* one call on a Sandbox client, answered with every body
NextDecode == Step({"Sandbox"}, {1}, {CategoriesGet}, {GetCategoriesRequest}, RichBodies)
SpecDecode == InitWith(SetEnvirons, {1}) /\ [][NextDecode]_vars

\* one call of an endpoint method, or of send_request itself, answered with
\* every status and every body
NextEndpoints ==
    \/ Step(Environment, {1}, {CategoriesGet}, {GetCategoriesRequest},
            BodiesFor(EndpointCalls))
    \/ \E e \in OnClient(EndpointCalls) : Endpoint(1, e)
SpecEndpoints == InitWith(SetEnvirons, {1}) /\ [][NextEndpoints]_vars

\* MaxCalls calls on one client, endpoint methods and send_request, in any
\* interleaving of their steps, failures and cancellations
NextSession ==
    \/ Step({"Production"}, 1..MaxCalls, {CategoriesGet}, {GetCategoriesRequest},
            BodiesFor(SessionCalls))
    \/ \E c \in 1..MaxCalls, e \in OnClient(SessionCalls) : Endpoint(c, e)
SpecSession == InitWith(SetEnvirons, 1..MaxCalls) /\ [][NextSession]_vars

\* Client::new with every argument, under process environments that set,
\* leave out or garble the variables from_env reads
SpecNew ==
    /\ InitWith(Environs({Absent, Value(SANDBOX), Value(PRODUCTION)},
                         {Absent, NotUnicode, Value(ClientIdText)},
                         {Absent, Value(SecretText)}), {1})
    /\ [][\E client_id \in {"id", "other"}, secret \in {"secret", ""}, e \in Environment :
              New(client_id, secret, e)]_vars

\* MaxCalls calls on a transport that, for every request it holds, in the end
\* delivers the response or reports a failure, and then delivers the body or
\* reports a failure
SpecLive ==
    /\ InitWith(SetEnvirons, 1..MaxCalls)
    /\ [][Step({"Sandbox"}, 1..MaxCalls, {CategoriesGet}, {GetCategoriesRequest}, FewBodies)]_vars
    /\ \A c \in 1..MaxCalls :
          /\ WF_vars(TransportFails(c) \/ \E status \in Statuses : ResponseArrives(c, status))
          /\ WF_vars(BodyFails(c) \/ \E body \in FewBodies : BodyArrives(c, body))

\* one call on a Sandbox client, answered with every body, and the error it
\* returned formatted
SpecDisplay ==
    /\ InitWith(SetEnvirons, {1})
    /\ [][\/ Step({"Sandbox"}, {1}, {CategoriesGet}, {GetCategoriesRequest, RUnserializable},
                   RichBodies)
          \/ ToString_Error(1)]_vars

\* the same request issued twice on one client, each answered on its own
SpecTwice ==
    /\ InitWith(SetEnvirons, 1..2)
    /\ [][\/ Step({"Sandbox"}, 1..2, {CategoriesGet}, {GetCategoriesRequest},
                   InstitutionBodies)
          \/ \E c \in 1..2, e \in OnClient(TwiceCalls) : Endpoint(c, e)]_vars

----------------------------------------------------------------------------
(* Client::from_env (claims C5, C6, C7), under SpecEnv *)

\* s spells word, in whatever letter case
EqualsIgnoringCase(s, word) ==
    /\ Len(s) = Len(word)
    /\ \A i \in 1..Len(s) : ToUpperChar(s[i]) = word[i]

IsSet(name) == environ[name].set /\ environ[name].unicode

Selects(word) ==
    /\ IsSet("PLAID_ENVIRONMENT")
    /\ EqualsIgnoringCase(environ["PLAID_ENVIRONMENT"].v, word)

FromEnvReturned == ctor \in {"from_env", "panic"}

\* C5: with PLAID_CLIENT_ID and PLAID_SECRET set, from_env returns a client
\* bound to Sandbox, Development or Production when PLAID_ENVIRONMENT is
\* SANDBOX, DEVELOPMENT or PRODUCTION in any letter case.
C5_FromEnvAcceptsAnyCase ==
    (FromEnvReturned /\ IsSet("PLAID_CLIENT_ID") /\ IsSet("PLAID_SECRET")) =>
        /\ Selects(SANDBOX) => (client.made /\ client.environment = "Sandbox")
        /\ Selects(DEVELOPMENT) => (client.made /\ client.environment = "Development")
        /\ Selects(PRODUCTION) => (client.made /\ client.environment = "Production")

\* C6: when PLAID_ENVIRONMENT is set to a value that is none of the three
\* names, from_env panics: no client exists and nothing has been sent.
C6_UnknownSelectorPanics ==
    (/\ FromEnvReturned
     /\ IsSet("PLAID_ENVIRONMENT")
     /\ ~Selects(SANDBOX) /\ ~Selects(DEVELOPMENT) /\ ~Selects(PRODUCTION)) =>
        (ctor = "panic" /\ ~client.made /\ net = <<>>)

C6_Witness ==
    /\ ctor = "panic"
    /\ environ["PLAID_ENVIRONMENT"] = Value(<<"t","e","s","t">>)
    /\ IsSet("PLAID_CLIENT_ID") /\ IsSet("PLAID_SECRET")

\* C7: when one of PLAID_ENVIRONMENT, PLAID_CLIENT_ID and PLAID_SECRET is
\* absent, from_env panics: no client exists, so no call of send_request has
\* started and nothing has been sent.
C7_MissingVariablePanics ==
    (FromEnvReturned /\ \E name \in EnvVars : ~environ[name].set) =>
        /\ ctor = "panic"
        /\ ~client.made
        /\ net = <<>>
        /\ \A c \in DOMAIN calls : calls[c].pc = "idle"

C7_Witness ==
    /\ ctor = "panic"
    /\ Selects(PRODUCTION)
    /\ IsSet("PLAID_CLIENT_ID")
    /\ ~environ["PLAID_SECRET"].set

----------------------------------------------------------------------------
(* Client::send_request (claims C1, C2, C3, C4) *)

\* a JSON document has the shape of type ty
RECURSIVE HasShape(_, _)
HasShape(ty, doc) ==
    CASE ty.t = "String" -> doc.j = "string"
      [] ty.t = "Option" -> doc.j = "null" \/ HasShape(ty.of, doc)
      [] ty.t = "Vec" ->
            doc.j = "array" /\ \A i \in 1..Len(doc.items) : HasShape(ty.of, doc.items[i])
      [] ty.t = "Struct" ->
            /\ doc.j = "object"
            /\ \A f \in DOMAIN ty.fields :
                  IF f \in DOMAIN doc.members
                  THEN HasShape(ty.fields[f], doc.members[f])
                  ELSE ty.fields[f].t = "Option"
      [] ty.t = "Bool" -> doc.j = "bool"
      [] ty.t = "Number" -> doc.j = "number"
      [] ty.t = "Named" -> doc.j = "of" /\ doc.name = ty.name

\* a value equals a JSON document field for field: a string is the same
\* string, a Vec the same items in the same order, a struct has every field
\* equal to the member of its name, and None stands for null or for no member
RECURSIVE EqualsDoc(_, _)
EqualsDoc(v, doc) ==
    CASE v.k = "String" -> doc.j = "string" /\ doc.s = v.s
      [] v.k = "None" -> doc.j = "null"
      [] v.k = "Some" -> EqualsDoc(v.v, doc)
      [] v.k = "Bool" -> doc.j = "bool" /\ doc.b = v.b
      [] v.k = "Number" -> doc.j = "number" /\ doc.n = v.n
      [] v.k = "Named" -> doc.j = "of" /\ doc.name = v.name
      [] v.k = "Vec" ->
            /\ doc.j = "array"
            /\ Len(doc.items) = Len(v.items)
            /\ \A i \in 1..Len(v.items) : EqualsDoc(v.items[i], doc.items[i])
      [] v.k = "Struct" ->
            /\ doc.j = "object"
            /\ \A f \in DOMAIN v.fields :
                  IF f \in DOMAIN doc.members
                  THEN EqualsDoc(v.fields[f], doc.members[f])
                  ELSE v.fields[f].k = "None"
      [] OTHER -> FALSE

Returned(c) == calls[c].pc = "done"

\* the request of call c reached the transport
OnTheWire(c) == \E i \in 1..Len(net) : net[i].call = c

\* C1: a call answered with status 200 and a body of the shape of the response
\* type returns Ok with a value equal to the body field for field, lists in the
\* order received.
C1_OkEqualsBody ==
    \A c \in DOMAIN calls :
        (/\ Returned(c)
         /\ calls[c].status = OK
         /\ calls[c].body.json
         /\ HasShape(calls[c].U, calls[c].body.doc)) =>
            /\ calls[c].ok.some
            /\ ~calls[c].err.some
            /\ EqualsDoc(calls[c].ok.v, calls[c].body.doc)

\* an Ok value whose first category has a hierarchy of two different words
C1_Witness ==
    \E c \in DOMAIN calls :
        /\ Returned(c) /\ calls[c].status = OK /\ calls[c].ok.some
        /\ calls[c].body.json /\ HasShape(calls[c].U, calls[c].body.doc)
        /\ Len(calls[c].ok.v.fields.categories.items) = MaxList
        /\ LET h == calls[c].ok.v.fields.categories.items[1].fields.hierarchy.items IN
           Len(h) >= 2 /\ h[1] # h[2]

\* C2: a call answered with a status other than 200 and a body of the shape of
\* ErrorResponse returns Err(Error::Plaid) with request_id, error_type,
\* error_code, error_message and display_message equal to the body's and
\* status_code the status of that response.
C2_PlaidErrorEqualsBody ==
    \A c \in DOMAIN calls :
        (/\ Returned(c)
         /\ calls[c].status \notin {0, OK}
         /\ calls[c].body.json
         /\ HasShape(ErrorResponse, calls[c].body.doc)) =>
            /\ ~calls[c].ok.some
            /\ calls[c].err.some
            /\ calls[c].err.v.variant = "Plaid"
            /\ LET e == calls[c].err.v.plaid
                   m == calls[c].body.doc.members
               IN /\ EqualsDoc(e.request_id, m.request_id)
                  /\ EqualsDoc(e.error_type, m.error_type)
                  /\ EqualsDoc(e.error_code, m.error_code)
                  /\ EqualsDoc(e.error_message, m.error_message)
                  /\ IF "display_message" \in DOMAIN m
                     THEN EqualsDoc(e.display_message, m.display_message)
                     ELSE e.display_message = RNone
                  /\ e.status_code = calls[c].status

C2_Witness ==
    \E c \in DOMAIN calls :
        /\ Returned(c) /\ calls[c].status = 201
        /\ calls[c].err.some /\ calls[c].err.v.variant = "Plaid"
        /\ calls[c].err.v.plaid.error_type = RString("ITEM_ERROR")
        /\ calls[c].err.v.plaid.display_message = RSome(RString("Try again"))

\* C3: a call whose request reached the transport and got no response returns
\* Err(Error::Request), has attempted no decode and has no Ok value.
C3_TransportFailureIsRequestError ==
    \A c \in DOMAIN calls :
        (Returned(c) /\ OnTheWire(c) /\ calls[c].status = 0) =>
            /\ calls[c].err.some
            /\ calls[c].err.v.variant = "Request"
            /\ calls[c].decodes = <<>>
            /\ ~calls[c].ok.some

C3_Witness ==
    \E c \in DOMAIN calls :
        /\ Returned(c) /\ calls[c].status = 0 /\ OnTheWire(c)
        /\ calls[c].err = Some(Request("request"))

\* C4: a call that has returned has an Ok value or an Err value and not both;
\* a body that does not decode as the shape the status asks for is an Err
\* value of its own kind.
C4_ExactlyOneOutcome ==
    \A c \in DOMAIN calls :
        Returned(c) =>
            /\ calls[c].ok.some # calls[c].err.some
            /\ (/\ calls[c].body.arrived
                /\ ~(/\ calls[c].body.json
                     /\ HasShape(IF calls[c].status = OK THEN calls[c].U ELSE ErrorResponse,
                                 calls[c].body.doc))) =>
                    calls[c].err = Some(Request("decode"))

\* both outcomes have been seen on the same client, and a decode failure too
C4_Witness ==
    /\ \E c \in DOMAIN calls : Returned(c) /\ calls[c].ok.some
    /\ \E c \in DOMAIN calls :
          Returned(c) /\ calls[c].body.arrived /\ calls[c].err = Some(Request("decode"))

----------------------------------------------------------------------------
(* The target of a request (claims C8, C9, C10), under SpecUrl *)

HostName(environment) ==
    CASE environment = "Sandbox" -> "sandbox.plaid.com"
      [] environment = "Development" -> "development.plaid.com"
      [] environment = "Production" -> "production.plaid.com"

\* C8: the base URL of Sandbox is https://sandbox.plaid.com/, of Development
\* https://development.plaid.com/ and of Production
\* https://production.plaid.com/, three different URLs, and a request made
\* with the empty endpoint goes to the base URL of the client's environment.
C8_BaseUrlOfEnvironment ==
    /\ client.made =>
          Href(get_host(client)) = "https://" \o HostName(client.environment) \o "/"
    /\ \A e1, e2 \in Environment :
          e1 # e2 => Href(get_host(new(TRUE, "id", "secret", e1).v))
                       # Href(get_host(new(TRUE, "id", "secret", e2).v))
    /\ \A i \in 1..Len(net) :
          calls[net[i].call].url = <<>> =>
              Href(net[i].url) = "https://" \o HostName(client.environment) \o "/"

C8_Witness ==
    /\ client.made /\ client.environment = "Development"
    /\ \E i \in 1..Len(net) :
          calls[net[i].call].url = <<>> /\ net[i].url.host = "development.plaid.com"

\* the request is a POST of a JSON document to the endpoint under the host of
\* the client's environment
ToEnvironmentHost(r) ==
    /\ r.method = "POST"
    /\ r.content_type = "application/json"
    /\ r.body.j \in {"null", "string", "number", "array", "object"}
    /\ r.url.host = HostName(client.environment)
    /\ Href(r.url) = "https://" \o HostName(client.environment) \o "/"
                        \o Concat(calls[r.call].url)

C10_SendRequestNeverPanics ==
    \A c \in DOMAIN calls : calls[c].pc # "panicked"

----------------------------------------------------------------------------
(* The status and the two decodes (claims C11, C12, C13), under SpecDecode *)

\* the body of call c arrived and is a JSON document of the shape of ty
BodyHasShape(c, ty) ==
    calls[c].body.arrived /\ calls[c].body.json /\ HasShape(ty, calls[c].body.doc)

\* C11: only status 200 leads to the success path: a call that returned Ok, or
\* that decoded its body as the response type, had status 200; a call answered
\* with any other status (201 included) decoded its body as ErrorResponse only
\* and has no Ok value, even when the body has the shape of the response type.
C11_OnlyStatus200IsOk ==
    \A c \in DOMAIN calls :
        /\ (calls[c].ok.some \/ \E i \in 1..Len(calls[c].decodes) : calls[c].decodes[i] = "U")
              => calls[c].status = OK
        /\ (Returned(c) /\ calls[c].body.arrived /\ calls[c].status # OK) =>
              /\ calls[c].decodes = <<"ErrorResponse">>
              /\ ~calls[c].ok.some
              /\ calls[c].err.some

\* status 201 with a body of two categories: an error all the same
C11_Witness ==
    \E c \in DOMAIN calls :
        /\ Returned(c) /\ calls[c].status = 201
        /\ BodyHasShape(c, calls[c].U)
        /\ Len(calls[c].body.doc.members.categories.items) = 2
        /\ calls[c].err.some /\ ~calls[c].ok.some

\* C12: a body that does not decode is an Err(Error::Request): with status 200
\* and a body that is not of the shape of the response type, or another status
\* and a body that is not of the shape of ErrorResponse, the call returns
\* Error::Request, never Ok and never Error::Plaid.
C12_DecodeFailureIsRequestError ==
    \A c \in DOMAIN calls :
        (/\ Returned(c)
         /\ calls[c].body.arrived
         /\ \/ calls[c].status = OK /\ ~BodyHasShape(c, calls[c].U)
            \/ calls[c].status # OK /\ ~BodyHasShape(c, ErrorResponse)) =>
            /\ ~calls[c].ok.some
            /\ calls[c].err.some
            /\ calls[c].err.v.variant = "Request"
            /\ calls[c].err.v.variant # "Plaid"

\* status 200 and a JSON object that lacks a member of the response type
C12_Witness ==
    \E c \in DOMAIN calls :
        /\ Returned(c) /\ calls[c].status = OK
        /\ calls[c].body.json
        /\ "categories" \in DOMAIN calls[c].body.doc.members
        /\ "request_id" \notin DOMAIN calls[c].body.doc.members
        /\ calls[c].err.some /\ calls[c].err.v.variant = "Request"

\* C13: a returned call has Error::Plaid exactly when its status was not 200
\* and its body decoded as ErrorResponse; a transport failure (no response, or
\* a body that could not be read) never gives Error::Plaid, and a status other
\* than 200 with a well-formed envelope never gives Error::Request.
C13_PlaidIffNon200Envelope ==
    \A c \in DOMAIN calls :
        Returned(c) =>
            /\ (calls[c].err.some /\ calls[c].err.v.variant = "Plaid")
                  <=> (calls[c].status \notin {0, OK} /\ BodyHasShape(c, ErrorResponse))
            /\ ~calls[c].body.arrived =>
                  (calls[c].err.some /\ calls[c].err.v.variant = "Request")
            /\ (calls[c].status \notin {0, OK} /\ BodyHasShape(c, ErrorResponse)) =>
                  ~(calls[c].err.some /\ calls[c].err.v.variant = "Request")

\* status 400 with an envelope whose display_message is null
C13_Witness ==
    \E c \in DOMAIN calls :
        /\ Returned(c) /\ calls[c].status = 400
        /\ BodyHasShape(c, ErrorResponse)
        /\ calls[c].err.some /\ calls[c].err.v.variant = "Plaid"
        /\ calls[c].err.v.plaid.display_message = RNone

----------------------------------------------------------------------------
(* The endpoint methods (claims C14, C15, C18), under SpecEndpoints *)

\* the JSON body of a request carries the client's credentials
HasCredentials(body) ==
    /\ body.j = "object"
    /\ {"client_id", "secret"} \subseteq DOMAIN body.members
    /\ body.members.client_id = JStr(client.client_id)
    /\ body.members.secret = JStr(client.secret)

\* the requests on the wire that a call of the endpoint method made
RequestsOf(method) ==
    { i \in 1..Len(net) : calls[net[i].call].method = method }

\* C14 as stated: the body of every request made by an endpoint method carries
\* the client_id and the secret of the client.
C14_EveryEndpointSendsCredentials ==
    \A method \in EndpointMethods :
        \A i \in RequestsOf(method) : HasCredentials(net[i].body)

\* C14 amended: the body of every request made by an endpoint method other
\* than get_categories carries the client_id and the secret of the client; the
\* body of a get_categories request is the empty JSON object.
C14_EndpointsButCategoriesSendCredentials ==
    /\ \A method \in EndpointMethods \ {"get_categories"} :
          \A i \in RequestsOf(method) : HasCredentials(net[i].body)
    /\ \A i \in RequestsOf("get_categories") :
          net[i].body.j = "object" /\ DOMAIN net[i].body.members = {}

\* a get_accounts request with options, carrying the credentials of the client
C14_Witness ==
    \E i \in RequestsOf("get_accounts") :
        /\ HasCredentials(net[i].body)
        /\ "options" \in DOMAIN net[i].body.members
        /\ client.client_id = "id" /\ client.secret = "secret"

\* C15: nothing is retried and no pagination is followed: at every moment, and
\* whatever a call has returned, at most one request of the call has been put
\* on the wire; a call that reached the transport has put exactly one.
C15_AtMostOneRequestPerCall ==
    \A c \in DOMAIN calls :
        LET sent == { i \in 1..Len(net) : net[i].call = c } IN
        /\ Cardinality(sent) <= 1
        /\ calls[c].pc \in {"sending", "reading", "cancelled"} => Cardinality(sent) = 1
        /\ (Returned(c) /\ calls[c].err # Some(Request("builder"))) => Cardinality(sent) = 1

\* sync_transactions returned Ok with has_more true, after a single request
C15_Witness ==
    \E c \in DOMAIN calls :
        /\ Returned(c) /\ calls[c].method = "sync_transactions"
        /\ calls[c].ok.some
        /\ calls[c].ok.v.fields.has_more = RBool(TRUE)
        /\ Len(net) = 1 /\ net[1].call = c

\* C18: an endpoint method returns what its send_request returned: when the
\* call of send_request has returned Ok(v) the method has returned Ok(v), when
\* it has returned Err(e) the method has returned Err(e), the same value and
\* the same variant; and a method whose send_request has not returned has
\* returned nothing.
C18_EndpointReturnsSendRequestResult ==
    \A c \in DOMAIN calls :
        calls[c].method \in EndpointMethods =>
            /\ calls[c].ret.some <=> Returned(c)
            /\ (Returned(c) /\ calls[c].ok.some) => calls[c].ret.v = Ok(calls[c].ok.v)
            /\ (Returned(c) /\ calls[c].err.some) => calls[c].ret.v = Err(calls[c].err.v)

\* remove_item answered with status 400 and an error envelope: the method
\* returned Error::Plaid with that status
C18_Witness ==
    \E c \in DOMAIN calls :
        /\ calls[c].method = "remove_item" /\ Returned(c)
        /\ calls[c].status = 400
        /\ calls[c].ret.some /\ ~calls[c].ret.v.is_ok
        /\ calls[c].ret.v.e.variant = "Plaid"
        /\ calls[c].ret.v.e.plaid.status_code = 400

----------------------------------------------------------------------------
(* Calls side by side on one client (claims C16, C17, C19, C20), under
   SpecSession *)

\* C16: no step of a call changes the client: once constructed, its
\* client_id, secret and environment stay those given to the constructor,
\* through every start, response, failure and cancellation of every call.
C16_ClientNeverChanges ==
    [][client.made => client' = client]_vars

\* every call has returned, one of them with an error, and the client is the
\* one constructed
C16_Witness ==
    /\ client = Client("id", "secret", "Production")
    /\ \A c \in DOMAIN calls : Returned(c)
    /\ \E c \in DOMAIN calls : calls[c].err.some /\ calls[c].status = 0 /\ OnTheWire(c)
    /\ \E c \in DOMAIN calls : calls[c].method = "get_accounts"

\* what a call with the arguments of call c returns on a client just
\* constructed with the same credentials and environment, given the same
\* answer: no response, a status and no body, or a status and a body
OnFreshClient(c) ==
    LET call == calls[c]
        begun == CHOOSE r \in send_request_begin(
                                  new(TRUE, client.client_id, client.secret, client.environment).v,
                                  c, call.url, call.req, call.U) : TRUE
        started == [begun.call EXCEPT !.method = call.method]
    IN IF started.pc # "sending" THEN endpoint_await(started)
       ELSE IF call.status = 0 THEN endpoint_await(send_request_send_failed(started))
       ELSE IF ~call.body.arrived
            THEN endpoint_await(send_request_body_failed(
                                    send_request_response(started, call.status)))
            ELSE endpoint_await(send_request_body(
                                    send_request_response(started, call.status), call.body))

\* C17: whatever the other calls on the client have returned, a call that has
\* returned has the outcome that the same call, given the same answer, has on
\* a fresh client of the same credentials and environment; its request was
\* sent unless it could not be serialized; and it returns Ok when the answer
\* is status 200 with a body of the shape of its response type.
C17_OutcomeAsOnFreshClient ==
    \A c \in DOMAIN calls :
        Returned(c) =>
            /\ calls[c] = OnFreshClient(c)
            /\ to_json(calls[c].req).ok => OnTheWire(c)
            /\ (calls[c].status = OK /\ BodyHasShape(c, calls[c].U)) => calls[c].ok.some

\* a call returned Ok on a client on which another call has failed
C17_Witness ==
    \E c, d \in DOMAIN calls :
        /\ c # d
        /\ Returned(c) /\ calls[c].err.some /\ calls[c].err.v.variant = "Plaid"
        /\ Returned(d) /\ calls[d].ok.some /\ calls[d].method = "get_accounts"

\* C19: calls in flight on one client are independent. A step of one call
\* changes no other call; it keeps the call's own arguments and, once the
\* status has arrived, the call's own status, and a call that returns after
\* its body arrived returns what its own status and that body decode to. No
\* order is imposed: whatever the other calls are doing, a client that exists
\* can start an idle call, a call awaiting its response can receive it or
\* fail, and a call awaiting its body can receive it or fail.
C19_CallsAreIndependent ==
    [][\A c \in DOMAIN calls :
          /\ calls'[c] # calls[c] =>
                /\ \A d \in DOMAIN calls \ {c} : calls'[d] = calls[d]
                /\ calls[c].pc # "idle" =>
                      /\ calls'[c].url = calls[c].url
                      /\ calls'[c].req = calls[c].req
                      /\ calls'[c].U = calls[c].U
                      /\ calls'[c].method = calls[c].method
                /\ calls[c].pc = "reading" => calls'[c].status = calls[c].status
                /\ (calls[c].pc = "reading" /\ calls'[c].pc = "done" /\ calls'[c].body.arrived) =>
                      calls'[c] = endpoint_await(send_request_body(calls[c], calls'[c].body))
          /\ (client.made /\ calls[c].pc = "idle") =>
                ENABLED SendRequest(c, CategoriesGet, GetCategoriesRequest, GetCategoriesResponse)
          /\ calls[c].pc = "sending" =>
                (ENABLED ResponseArrives(c, OK)) /\ (ENABLED TransportFails(c))
          /\ calls[c].pc = "reading" =>
                (ENABLED BodyArrives(c, NotJson)) /\ (ENABLED BodyFails(c))
      ]_vars

\* the call whose request was sent second has returned an API error while
\* the call whose request was sent first, and answered 200, awaits its body
C19_Witness ==
    /\ Len(net) = 2
    /\ calls[net[1].call].pc = "reading" /\ calls[net[1].call].status = OK
    /\ Returned(net[2].call)
    /\ calls[net[2].call].err.some /\ calls[net[2].call].err.v.variant = "Plaid"
    /\ calls[net[2].call].status = 400

Cancelled(c) == calls[c].pc = "cancelled"

\* C20: a call can be dropped while it awaits the response or the body. The
\* step that drops it changes neither the client nor the requests sent nor any
\* other call; the dropped call has delivered nothing (no Ok, no Err, no
\* decode, no return of its endpoint method) and delivers nothing afterwards;
\* and beside a dropped call the other calls start, receive, fail and return
\* as on a fresh client.
C20_CancelLeavesNoTrace ==
    /\ [][\A c \in DOMAIN calls :
          /\ (Cancelled(c)' /\ ~Cancelled(c)) =>
                /\ calls[c].pc \in {"sending", "reading"}
                /\ client' = client
                /\ net' = net
                /\ \A d \in DOMAIN calls \ {c} : calls'[d] = calls[d]
          /\ Cancelled(c)' =>
                /\ ~calls'[c].ok.some /\ ~calls'[c].err.some /\ ~calls'[c].ret.some
                /\ calls'[c].decodes = <<>>
                /\ ~calls'[c].body.arrived
          /\ Cancelled(c) => calls'[c] = calls[c]
          /\ Cancelled(c) =>
                \A d \in DOMAIN calls \ {c} :
                    /\ (calls[d].pc = "idle") =>
                          ENABLED SendRequest(d, CategoriesGet, GetCategoriesRequest,
                                              GetCategoriesResponse)
                    /\ (calls[d].pc = "sending") =>
                          (ENABLED ResponseArrives(d, OK)) /\ (ENABLED TransportFails(d))
                    /\ (calls[d].pc = "reading") =>
                          (ENABLED BodyArrives(d, NotJson)) /\ (ENABLED BodyFails(d))
      ]_vars
    /\ [](\A c \in DOMAIN calls :
             Cancelled(c) =>
                 \A d \in DOMAIN calls \ {c} : Returned(d) => calls[d] = OnFreshClient(d))

\* a call was dropped while it awaited the body of a 200 answer, and a call
\* whose request was sent after that of the dropped call has returned Ok
C20_Witness ==
    /\ Len(net) = 2
    /\ Cancelled(net[1].call) /\ calls[net[1].call].status = OK
    /\ Returned(net[2].call) /\ calls[net[2].call].ok.some
    /\ client = Client("id", "secret", "Production")

----------------------------------------------------------------------------
(* Repeated requests (claim C21), under SpecTwice *)

\* a JSON body without its tracing identifier
BusinessFields(body) ==
    IF body.json /\ body.doc.j = "object"
    THEN [body EXCEPT !.doc = Without(body.doc, "request_id")]
    ELSE body

\* what a call returned, without the tracing identifier
BusinessResult(c) ==
    IF calls[c].ok.some
    THEN Ok([f \in DOMAIN calls[c].ok.v.fields \ {"request_id"} |-> calls[c].ok.v.fields[f]])
    ELSE IF calls[c].err.v.variant = "Plaid"
         THEN Err(Plaid([calls[c].err.v.plaid EXCEPT !.request_id = ""]))
         ELSE Err(calls[c].err.v)

\* two calls of the same request that were answered, with the same status and
\* the same business fields
SameRequestSameAnswer(c, d) ==
    /\ Returned(c) /\ Returned(d)
    /\ calls[c].method = calls[d].method /\ calls[c].url = calls[d].url
    /\ calls[c].req = calls[d].req /\ calls[c].U = calls[d].U
    /\ calls[c].body.arrived /\ calls[d].body.arrived
    /\ calls[c].status = calls[d].status
    /\ BusinessFields(calls[c].body) = BusinessFields(calls[d].body)

\* C21: two calls of the same request on one client that are answered with
\* the same status and the same business fields return results that are equal
\* in everything but request_id.
C21_SameAnswerSameResult ==
    \A c, d \in DOMAIN calls :
        SameRequestSameAnswer(c, d) => BusinessResult(c) = BusinessResult(d)

\* two institution lookups returned Ok with the same institution under
\* different request ids
C21_Witness ==
    \E c, d \in DOMAIN calls :
        /\ c # d /\ SameRequestSameAnswer(c, d)
        /\ calls[c].method = "get_institution_by_id"
        /\ calls[c].ok.some /\ calls[d].ok.some
        /\ calls[c].ok.v.fields.request_id # calls[d].ok.v.fields.request_id
        /\ calls[c].ok.v.fields.institution.fields.name = RString("Bank A")

----------------------------------------------------------------------------
(* Client::new (claim C22), under SpecNew *)

----------------------------------------------------------------------------
(* The members of the error envelope (claim C23), under SpecDecode *)

RequiredOfErrorResponse == {"request_id", "error_type", "error_code", "error_message"}

\* C23: on a status other than 200, a body that is an object with the four
\* string members request_id, error_type, error_code and error_message and
\* with display_message null or absent is returned as Error::Plaid of those
\* four strings with display_message None; a body that is an object without
\* one of the four is returned as Error::Request.
C23_RequiredAndOptionalMembers ==
    \A c \in DOMAIN calls :
        (/\ Returned(c) /\ calls[c].body.arrived /\ calls[c].status # OK
         /\ calls[c].body.json /\ calls[c].body.doc.j = "object") =>
            LET m == calls[c].body.doc.members
                err == calls[c].err
            IN /\ (/\ \A f \in RequiredOfErrorResponse : f \in DOMAIN m /\ m[f].j = "string"
                   /\ \/ "display_message" \notin DOMAIN m
                      \/ m.display_message.j = "null") =>
                      /\ err.some /\ err.v.variant = "Plaid"
                      /\ err.v.plaid.display_message = RNone
                      /\ \A f \in RequiredOfErrorResponse : err.v.plaid[f] = RString(m[f].s)
               /\ (\E f \in RequiredOfErrorResponse : f \notin DOMAIN m) =>
                      /\ err.some /\ err.v.variant = "Request"
                      /\ ~calls[c].ok.some

\* a 400 answer whose body has the four strings and no display_message was
\* returned as Error::Plaid
C23_Witness ==
    \E c \in DOMAIN calls :
        /\ Returned(c) /\ calls[c].status = 400 /\ calls[c].body.json
        /\ DOMAIN calls[c].body.doc.members = RequiredOfErrorResponse
        /\ calls[c].err.some /\ calls[c].err.v.variant = "Plaid"
        /\ calls[c].err.v.plaid.display_message = RNone

\* a 400 answer whose body lacks error_code was returned as Error::Request
C23_WitnessMissing ==
    \E c \in DOMAIN calls :
        /\ Returned(c) /\ calls[c].status = 400 /\ calls[c].body.json
        /\ DOMAIN calls[c].body.doc.members =
               (RequiredOfErrorResponse \ {"error_code"}) \cup {"display_message"}
        /\ calls[c].err.some /\ calls[c].err.v.variant = "Request"

----------------------------------------------------------------------------
(* The order of the steps of a call (claim C24), under SpecUrl *)

\* how far a call has come
Rank(pc) ==
    CASE pc = "idle" -> 0
      [] pc = "sending" -> 1
      [] pc = "reading" -> 2
      [] OTHER -> 3

\* the requests of call c handed to the transport
SentBy(c) == {i \in 1..Len(net) : net[i].call = c}

\* C24: the steps of a call happen in one order and at most once each. A call
\* sends at most one request; it has a status only after its request was
\* sent, and the status never changes; it attempts a decode only after the
\* status and the body have arrived, attempts exactly one when the body has
\* arrived, as U when the status is 200 and as ErrorResponse otherwise; and
\* an attempted decode is never followed by another. A call never steps back.
C24_StepsInOrderOnce ==
    /\ [](\A c \in DOMAIN calls :
             /\ Cardinality(SentBy(c)) <= 1
             /\ calls[c].status # 0 => (SentBy(c) # {} /\ Rank(calls[c].pc) >= 2)
             /\ calls[c].decodes # <<>> =>
                    /\ calls[c].status # 0 /\ calls[c].body.arrived
                    /\ calls[c].decodes =
                           <<IF calls[c].status = OK THEN "U" ELSE "ErrorResponse">>
             /\ (Returned(c) /\ calls[c].body.arrived) => Len(calls[c].decodes) = 1
             /\ calls[c].body.arrived => Returned(c))
    /\ [][\A c \in DOMAIN calls :
             /\ Rank(calls'[c].pc) >= Rank(calls[c].pc)
             /\ Rank(calls[c].pc) = 3 => calls'[c] = calls[c]
             /\ calls[c].status # 0 => calls'[c].status = calls[c].status
             /\ calls[c].decodes # <<>> => calls'[c].decodes = calls[c].decodes
             /\ SentBy(c) \subseteq SentBy(c)'
             /\ (calls[c].pc = "idle" /\ calls'[c].pc # "idle") =>
                    (calls'[c].status = 0 /\ calls'[c].decodes = <<>>)
             /\ (calls[c].pc = "sending" /\ calls'[c].pc # "sending") =>
                    calls'[c].decodes = <<>>
       ]_vars

\* a call has sent its request, read status 200 and decoded a JSON body as U,
\* which failed, and has returned
C24_Witness ==
    \E c \in DOMAIN calls :
        /\ Returned(c) /\ calls[c].status = OK /\ calls[c].decodes = <<"U">>
        /\ calls[c].err.some /\ calls[c].body.json
        /\ Cardinality(SentBy(c)) = 1

----------------------------------------------------------------------------
(* Termination (claim C25), under SpecLive *)

Suspended(c) == calls[c].pc \in {"sending", "reading"}

\* C25: on a transport that in the end answers or fails, a call that awaits
\* the response or the body returns in the end, unless its caller drops it.
\* And a suspended call moves only when the transport does, or when it is
\* dropped: with no step of the transport for it, it stays as it is, and what
\* it returns is the failure the transport reported or the decoding of the
\* status and body the transport delivered.
C25_ReturnsWhenTheTransportDoes ==
    /\ \A c \in 1..MaxCalls : Suspended(c) ~> (Returned(c) \/ Cancelled(c))
    /\ [][\A c \in DOMAIN calls :
             Suspended(c) =>
                 /\ (/\ ~TransportFails(c) /\ ~BodyFails(c) /\ ~Cancel(c)
                     /\ \A status \in Statuses : ~ResponseArrives(c, status)
                     /\ \A body \in FewBodies : ~BodyArrives(c, body)) =>
                        calls'[c] = calls[c]
                 /\ Returned(c)' =>
                        \/ calls'[c] = endpoint_await(send_request_send_failed(calls[c]))
                        \/ calls'[c] = endpoint_await(send_request_body_failed(calls[c]))
                        \/ /\ calls'[c].body.arrived
                           /\ calls'[c] =
                                  endpoint_await(send_request_body(calls[c], calls'[c].body))
       ]_vars

\* one call has returned Ok while another still awaits its response
C25_Witness ==
    \E c, d \in DOMAIN calls :
        /\ Returned(c) /\ calls[c].ok.some /\ calls[c].status = OK
        /\ calls[d].pc = "sending" /\ OnTheWire(d)

----------------------------------------------------------------------------
(* No validation before sending (claim C26), under SpecEndpoints *)

\* the request of call c on the wire
RequestOf(c) == net[CHOOSE i \in 1..Len(net) : net[i].call = c]

\* C26: an endpoint method checks none of its arguments: once it is called
\* its request is on the wire, with the arguments as they were given, and when
\* it returns Err the error is the failure of the transport, the API error of
\* a response that is not 200, or the failure to decode the body; it is never
\* an error made before the request was sent.
C26_NoLocalValidation ==
    \A c \in DOMAIN calls :
        (calls[c].method \in EndpointMethods /\ calls[c].pc # "idle") =>
            /\ OnTheWire(c)
            /\ to_json(calls[c].req) = SerdeOk(RequestOf(c).body)
            /\ (calls[c].ret.some /\ ~calls[c].ret.v.is_ok) =>
                   \/ calls[c].status = 0 /\ calls[c].ret.v.e = Request("request")
                   \/ calls[c].status # 0 /\ calls[c].ret.v.e = Request("body")
                   \/ calls[c].body.arrived /\ calls[c].ret.v.e = Request("decode")
                   \/ /\ calls[c].status \notin {0, OK} /\ calls[c].body.arrived
                      /\ calls[c].ret.v.e.variant = "Plaid"

\* get_institutions with no country code was sent, with the empty list in its
\* body, and returned the API error of the 400 answer
C26_Witness ==
    \E c \in DOMAIN calls :
        /\ calls[c].method = "get_institutions" /\ Returned(c) /\ OnTheWire(c)
        /\ RequestOf(c).body.members.country_codes = JArr(<<>>)
        /\ calls[c].status = 400
        /\ calls[c].ret.some /\ ~calls[c].ret.v.is_ok
        /\ calls[c].ret.v.e.variant = "Plaid"

----------------------------------------------------------------------------
(* The options key (claim C27), under SpecEndpoints *)

MethodsWithOptions ==
    {"get_accounts", "get_balances", "get_auth", "get_transactions",
     "get_investment_transactions", "get_liabilities", "get_institutions",
     "get_institution_by_id", "search_institutions"}

\* C27: the body sent by a method that takes options has the key options
\* exactly when the argument is Some, and then its value is the object the
\* options serialize to; with None there is no such key, and the value is
\* never null.
C27_OptionsKeyIffSome ==
    \A c \in DOMAIN calls :
        (calls[c].method \in MethodsWithOptions /\ OnTheWire(c)) =>
            LET members == RequestOf(c).body.members
                options == calls[c].req.fields.options
            IN /\ "options" \in DOMAIN members <=> options.k = "Some"
               /\ options.k = "Some" => members.options = to_json(options.v).v
               /\ "options" \in DOMAIN members => members.options.j = "object"

\* get_transactions was sent once with options None, its body without the key
C27_Witness ==
    \E c \in DOMAIN calls :
        /\ calls[c].method = "get_transactions" /\ OnTheWire(c)
        /\ calls[c].req.fields.options = RNone
        /\ "options" \notin DOMAIN RequestOf(c).body.members
        /\ "start_date" \in DOMAIN RequestOf(c).body.members

\* get_accounts was sent with Some(options) that name no account: the key is
\* there, its value an object
C27_WitnessSome ==
    \E c \in DOMAIN calls :
        /\ calls[c].method = "get_accounts" /\ OnTheWire(c)
        /\ calls[c].req.fields.options.k = "Some"
        /\ RequestOf(c).body.members.options = JObj([account_ids |-> JNull])

----------------------------------------------------------------------------
(* Display of the errors (claim C28), under SpecDisplay *)

\* the text of a status: its number and its reason phrase
StatusText(status) ==
    CASE status = 201 -> "201 Created"
      [] status = 400 -> "400 Bad Request"
      [] OTHER -> "200 OK"

\* C28: every error a call returns can be formatted, and the text starts with
\* "Error - ". For Error::Plaid the rest is the line of the request id, the
\* HTTP status, the type, the code and the message of the answer, and then the
\* display message, which is empty when the answer has none; for
\* Error::Request the rest is the text of the reqwest error.
C28_DisplayOfErrors ==
    \A c \in DOMAIN calls :
        /\ (Returned(c) /\ calls[c].err.some /\ ~calls[c].text.some) =>
               ENABLED ToString_Error(c)
        /\ calls[c].text.some =>
               LET text == calls[c].text.v
                   rest == SubSeq(text, Len("Error - ") + 1, Len(text))
               IN /\ calls[c].err.some
                  /\ SubSeq(text, 1, Len("Error - ")) = "Error - "
                  /\ calls[c].err.v.variant = "Request" =>
                         rest = "reqwest error: " \o calls[c].err.v.kind
                  /\ calls[c].err.v.variant = "Plaid" =>
                         LET m == calls[c].body.doc.members IN
                         rest = "Plaid Error - request ID: " \o m.request_id.s
                                \o ", http status: " \o StatusText(calls[c].status)
                                \o ", type: " \o m.error_type.s
                                \o ", code: " \o m.error_code.s
                                \o ", message: " \o m.error_message.s
                                \o ", display_message: "
                                \o (IF "display_message" \in DOMAIN m
                                       /\ m.display_message.j = "string"
                                    THEN m.display_message.s ELSE "")

\* the API error of a 400 answer without display_message was formatted: the
\* text ends with the empty display message
C28_Witness ==
    \E c \in DOMAIN calls :
        /\ calls[c].text.some /\ calls[c].err.v.variant = "Plaid"
        /\ calls[c].status = 400
        /\ "display_message" \notin DOMAIN calls[c].body.doc.members
        /\ calls[c].text.v =
               "Error - Plaid Error - request ID: req-2, http status: 400 Bad Request, "
               \o "type: ITEM_ERROR, code: INVALID_ACCESS_TOKEN, "
               \o "message: could not find matching access token, display_message: "

\* the error of a body that did not decode was formatted
C28_WitnessRequest ==
    \E c \in DOMAIN calls :
        /\ calls[c].text.some /\ calls[c].err.v = Request("decode")
        /\ calls[c].text.v = "Error - reqwest error: decode"

====
